---- MODULE Spec2Model ----
(***************************************************************************)
(* Model of the Gemini proxy function (netlify/functions/gemini-proxy.js,  *)
(* the variant with vision + audio inline media, lines 401-889): request   *)
(* validation, media normalisation and limits, construction of the         *)
(* outbound conversation, and the per-model retry / multi-model fallback   *)
(* loops of the non-streaming and the streaming path.                      *)
(*                                                                         *)
(* JavaScript values are records tagged by a field t ("undefined",         *)
(* "string", "array", ...).  A string is abstracted to its length, the     *)
(* position of its first Arabic character (0: none) and whether it is      *)
(* blank after trim().  A base64 payload is abstracted to its length and   *)
(* its number of trailing '=' characters.                                  *)
(***************************************************************************)
EXTENDS Integers, Sequences, FiniteSets, TLC

VARIABLES
    pc,         \* position of the handler: "idle", "fetch", "sleep", "read", "done"
    req,        \* the inbound event being handled
    lang,       \* target language chosen for the request
    accepted,   \* acceptedImageParts of the handler
    rejected,   \* rejected list of the handler
    totalBytes, \* totalBytes of the handler
    contents,   \* outbound conversation
    candidates, \* ordered candidate models
    generationConfig, \* generationConfig sent with every upstream call
    timeout_ms, \* per-attempt timeout after clamping
    mi,         \* index (1-based) of the candidate being tried
    attempt,    \* attempt counter of tryJSONOnce / tryStreamOnce
    hist,       \* upstream answers received from the candidate last called
    contacted,  \* candidate indexes in order of their first upstream call
    nCalls,     \* number of upstream calls of the request
    sleeps,     \* number of backoff delays of the request
    delay,      \* length (ms) of the backoff delay in progress, else 0
    response,   \* the response the handler resolved to
    reads,      \* number of reads of the upstream stream body so far
    buffer,     \* buffer of the stream generator
    sse,        \* events yielded by the stream generator so far
    received,   \* all characters read from the upstream stream body so far
    limIn,      \* argument of enforceImageLimits (function-level runs)
    limOut,     \* result of enforceImageLimits (function-level runs)
    mirIn,      \* arguments of mirrorLanguage (function-level runs)
    mirOut,     \* result of mirrorLanguage (function-level runs)
    cont,       \* the answer being assembled by auto-continuation
    chat,       \* one invocation of the signed chat endpoint
    upd         \* the configuration file and two invocations of update-config

reqVars ==
    <<req, lang, accepted, rejected, totalBytes, contents, candidates,
      generationConfig, timeout_ms>>
loopVars == <<mi, attempt, hist, contacted, nCalls, sleeps, delay>>
limVars == <<limIn, limOut, mirIn, mirOut, cont, chat, upd>>
streamVars == <<reads, buffer, sse, received>>
vars == <<pc, reqVars, loopVars, response, streamVars, limVars>>

(***************************************************************************)
(* Program constants                                                       *)
(***************************************************************************)
MAX_TRIES == 3
BASE_BACKOFF_MS == 600

\* a finite JavaScript number is held as its count of tenths: Dec(0, 6) is
\* 0.6 and Dec(8192, 0) is 8192
Dec(whole, tenths) == whole * 10 + tenths
MAX_OUTPUT_TOKENS_HARD == Dec(8192, 0)
DEFAULT_TIMEOUT_MS == Dec(26000, 0)
SAFE_TEMP_RANGE == <<Dec(0, 0), Dec(1, 0)>>
SAFE_TOPP_RANGE == <<Dec(0, 0), Dec(1, 0)>>
MAX_INLINE_BYTES == 15 * 1024 * 1024
MAX_INLINE_BYTES_TOTAL == 60 * 1024 * 1024
ALLOWED_IMAGE ==
    {"image/png", "image/jpeg", "image/jpg", "image/webp", "image/gif",
     "image/bmp", "image/svg+xml"}
ALLOWED_AUDIO ==
    {"audio/webm", "audio/ogg", "audio/mp3", "audio/mpeg", "audio/wav",
     "audio/m4a", "audio/aac", "audio/3gpp", "audio/3gpp2", "audio/mp4"}
MODEL_POOL ==
    <<"gemini-2.0-flash-exp", "gemini-2.0-flash", "gemini-1.5-flash",
      "gemini-1.5-pro">>

(***************************************************************************)
(* Bounds of the model                                                     *)
(***************************************************************************)
MaxItems == 6       \* length of the lists given to enforceImageLimits alone
MaxMsgs == 2        \* messages per request
MaxTopImgs == 2     \* top-level images per request
MaxReads == 2       \* reads of an upstream stream body before it ends
MaxText == 6        \* length of the texts given to mirrorLanguage alone

(***************************************************************************)
(* Values                                                                  *)
(***************************************************************************)
Undef == [t |-> "undefined"]
Str(len, ar, blank) == [t |-> "string", len |-> len, ar |-> ar, blank |-> blank]
StrEmpty == Str(0, 0, TRUE)
StrEn == Str(5, 0, FALSE)
StrAr == Str(5, 2, FALSE)
StrBlank == Str(2, 0, TRUE)
NotArray == [t |-> "object"]
Arr(items) == [t |-> "array", items |-> items]

\* numbers: finite ones (v: count of tenths), NaN and the two infinities
Finite(v) == [k |-> "finite", v |-> v]
NaN == [k |-> "nan", v |-> 0]
PosInf == [k |-> "inf", v |-> 0]
NegInf == [k |-> "-inf", v |-> 0]
NumberValue(x) == [t |-> "number", num |-> x]
Null == [t |-> "null"]
Bool(b) == [t |-> "boolean", b |-> b]
\* a string that reads as the number x ("0.5", "Infinity")
NumStr(x) == [t |-> "string", len |-> 3, ar |-> 0, blank |-> FALSE, num |-> x]

\* JavaScript truthiness of a value
Truthy(v) ==
    CASE v.t = "undefined" -> FALSE
      [] v.t = "null" -> FALSE
      [] v.t = "boolean" -> v.b
      [] v.t = "number" -> v.num.k \in {"inf", "-inf"} \/ (v.num.k = "finite" /\ v.num.v # 0)
      [] v.t = "string" -> v.len > 0
      [] OTHER -> TRUE

IsArray(v) == v.t = "array"

\* base64 payloads: length of the string and number of trailing '=' (0..2)
B64(len, pad) == [len |-> len, pad |-> pad]
B64Empty == B64(0, 0)
B64Small == B64(4, 0)
B64Padded == B64(4, 2)
B64AtLimit == B64(20 * 1024 * 1024, 0)
B64Over == B64(20 * 1024 * 1024 + 2, 0)

\* a media input: shape "dataUrl" is a string "data:<mime>;base64,<data>",
\* "object" is {mime, data}, "objectDataUrl" is {dataUrl: "data:..."},
\* "other" is any other value (a plain string, a number, null).
\* mime "" stands for a missing or empty MIME type.
Media(shape, mime, data) ==
    [t |-> "media", shape |-> shape, mime |-> mime, data |-> data]

Min(a, b) == IF a < b THEN a ELSE b
Max(a, b) == IF a > b THEN a ELSE b

RECURSIVE SumSeq(_)
SumSeq(s) == IF s = <<>> THEN 0 ELSE Head(s) + SumSeq(Tail(s))

RECURSIVE FlatSeq(_)
FlatSeq(ss) == IF ss = <<>> THEN <<>> ELSE Head(ss) \o FlatSeq(Tail(ss))

SeqsUpTo(S, n) == UNION {[1..k -> S] : k \in 0..n}

(***************************************************************************)
(* Numeric parameters                                                      *)
(***************************************************************************)
\* the number a string converts to: a numeric string to its value, an empty
\* or all-blank string to 0, any other string to NaN
StringToNumber(s) ==
    IF "num" \in DOMAIN s THEN s.num
    ELSE IF s.blank THEN Finite(0) ELSE NaN

\* +n, the conversion of any value to a number
ToNumber(n) ==
    CASE n.t = "number" -> n.num
      [] n.t = "undefined" -> NaN
      [] n.t = "null" -> Finite(0)
      [] n.t = "boolean" -> IF n.b THEN Finite(Dec(1, 0)) ELSE Finite(0)
      [] n.t = "string" -> StringToNumber(n)
      [] n.t = "array" ->
           IF Len(n.items) = 0 THEN Finite(0)
           ELSE IF Len(n.items) > 1 THEN NaN
           ELSE LET x == n.items[1]
                IN  CASE x.t = "number" -> x.num
                      [] x.t = "string" -> StringToNumber(x)
                      [] x.t \in {"null", "undefined"} -> Finite(0)
                      [] OTHER -> NaN
      [] OTHER -> NaN

clampNumberNoCeiling(n, min, max, fallback) ==
    LET v == IF ToNumber(n).k = "finite" THEN ToNumber(n).v ELSE fallback
    IN  Max(min, v)

clampNumber(n, min, max, fallback) ==
    LET v == IF ToNumber(n).k = "finite" THEN ToNumber(n).v ELSE fallback
    IN  Max(min, Min(max, v))

\* a destructuring default: it replaces an absent (undefined) field only
WithDefault(v, d) == IF v.t = "undefined" THEN NumberValue(Finite(d)) ELSE v

(***************************************************************************)
(* Media helpers                                                           *)
(***************************************************************************)
approxBase64Bytes(b64) ==
    IF b64.len = 0 THEN 0 ELSE ((b64.len - b64.pad) * 3) \div 4

fromDataUrl(item) == [mime |-> item.mime, data |-> item.data]

\* one entry of normalizeImageInputs' result for item number j of the list of
\* owner (0: the top-level list, m: message m); src records where the entry
\* came from and is carried along to tell equal payloads apart
NormalizedEntry(mime, data, owner, j) ==
    [mime |-> mime, data |-> data, bytes |-> approxBase64Bytes(data),
     src |-> <<owner, j>>]

normalizeImageItem(item, owner, j) ==
    CASE item.shape = "dataUrl" ->
           <<NormalizedEntry(fromDataUrl(item).mime, fromDataUrl(item).data, owner, j)>>
      [] item.shape = "object" ->
           IF item.mime # "" /\ item.data.len > 0
           THEN <<NormalizedEntry(item.mime, item.data, owner, j)>>
           ELSE <<>>
      [] item.shape = "objectDataUrl" ->
           IF fromDataUrl(item).mime # "" /\ fromDataUrl(item).data.len > 0
           THEN <<NormalizedEntry(fromDataUrl(item).mime, fromDataUrl(item).data, owner, j)>>
           ELSE <<>>
      [] OTHER -> <<>>

normalizeImageInputs(images, owner) ==
    IF ~IsArray(images) \/ Len(images.items) = 0 THEN <<>>
    ELSE FlatSeq([j \in 1..Len(images.items) |->
                    normalizeImageItem(images.items[j], owner, j)])

InlinePart(mime, data, src) ==
    [inline |-> TRUE, mime_type |-> mime, data |-> data, src |-> src]

RejectReasonSwapped(validType, withinPerPart) ==
    IF ~withinPerPart THEN "per-part" ELSE IF ~validType THEN "type" ELSE "total"

RejectReason(validType, withinPerPart) ==
    IF ~validType THEN "type" ELSE IF ~withinPerPart THEN "per-part" ELSE "total"

WithinPerPart(bytes, perImageLimit) == bytes > 0 /\ bytes <= perImageLimit

RECURSIVE enforceFrom(_, _, _, _, _)
enforceFrom(normalized, i, perImageLimit, totalLimit, acc) ==
    IF i > Len(normalized) THEN acc
    ELSE LET img == normalized[i]
             bytes == img.bytes
             mime == img.mime
             validType == mime \in ALLOWED_IMAGE
             withinPerPart == WithinPerPart(bytes, perImageLimit)
             withinTotal == acc.totalBytes + bytes <= totalLimit
         IN  IF validType /\ withinPerPart /\ withinTotal
             THEN enforceFrom(normalized, i + 1, perImageLimit, totalLimit,
                    [acceptedParts |-> Append(acc.acceptedParts,
                                              InlinePart(mime, img.data, img.src)),
                     rejected |-> acc.rejected,
                     totalBytes |-> acc.totalBytes + bytes])
             ELSE enforceFrom(normalized, i + 1, perImageLimit, totalLimit,
                    [acceptedParts |-> acc.acceptedParts,
                     rejected |-> Append(acc.rejected,
                                    [mime |-> mime, bytes |-> bytes,
                                     reason |-> RejectReason(validType, withinPerPart),
                                     src |-> img.src]),
                     totalBytes |-> acc.totalBytes])

enforceImageLimits(normalized, perImageLimit, totalLimit) ==
    enforceFrom(normalized, 1, perImageLimit, totalLimit,
                [acceptedParts |-> <<>>, rejected |-> <<>>, totalBytes |-> 0])

\* src of an audio part: item 0 of its owner
coerceAudioPart(audio, owner) ==
    IF ~Truthy(audio) THEN <<>>
    ELSE LET mime == CASE audio.shape = "dataUrl" -> fromDataUrl(audio).mime
                       [] audio.shape = "object" -> audio.mime
                       [] OTHER -> ""
             b64 == CASE audio.shape = "dataUrl" -> fromDataUrl(audio).data
                      [] audio.shape \in {"object", "objectDataUrl"} -> audio.data
                      [] OTHER -> B64Empty
         IN  IF /\ mime # ""
                /\ b64.len > 0
                /\ mime \in ALLOWED_AUDIO
                /\ approxBase64Bytes(b64) <= MAX_INLINE_BYTES
             THEN <<InlinePart(mime, b64, <<owner, 0>>)>>
             ELSE <<>>

(***************************************************************************)
(* Language and guardrails                                                 *)
(***************************************************************************)
hasArabicNever(s) == FALSE

hasArabic(s) == Truthy(s) /\ s.ar > 0

chooseLang(force, sample) ==
    IF force \in {"ar", "en"} THEN force
    ELSE IF hasArabic(sample) THEN "ar" ELSE "en"

\* a.concat(b)
Concat(a, b) ==
    Str(a.len + b.len,
        IF a.ar > 0 THEN a.ar ELSE IF b.ar > 0 THEN a.len + b.ar ELSE 0,
        a.blank /\ b.blank)

\* the two notices of mirrorLanguage: 34 characters with the first Arabic one
\* in third place, and 32 characters none of them Arabic
NoticeAr == Str(34, 3, FALSE)
NoticeEn == Str(32, 0, FALSE)

mirrorLanguage(text, lng) ==
    IF ~Truthy(text) THEN text
    ELSE IF lng = "ar" /\ hasArabic(text) THEN text
    ELSE IF lng = "en" /\ ~hasArabic(text) THEN text
    ELSE IF lng = "ar" THEN Concat(NoticeAr, text)
    ELSE Concat(NoticeEn, text)

textPreview(s) ==
    IF ~Truthy(s) THEN StrEmpty
    ELSE Str(Min(s.len, 6000), IF s.ar <= 6000 THEN s.ar ELSE 0, s.blank)

\* m?.content || "" of one message
ContentOrEmpty(m) == IF Truthy(m.content) THEN m.content ELSE StrEmpty

\* a.concat("\n").concat(b)
JoinTwo(a, b) ==
    Str(a.len + 1 + b.len,
        IF a.ar > 0 THEN a.ar ELSE IF b.ar > 0 THEN a.len + 1 + b.ar ELSE 0,
        a.blank /\ b.blank)

RECURSIVE JoinContents(_, _)
JoinContents(msgs, i) ==
    IF Len(msgs) = 0 THEN StrEmpty
    ELSE IF i = Len(msgs) THEN ContentOrEmpty(msgs[i])
    ELSE JoinTwo(ContentOrEmpty(msgs[i]), JoinContents(msgs, i + 1))

buildGuardrails(lng, useImageBrief, level) ==
    [lang |-> IF lng = "ar" THEN "ar" ELSE "en",
     imageBrief |-> useImageBrief,
     strict |-> level # "relaxed"]

\* the string `${head}\n${guard}\n\n---\n${prompt || ""}`
wrapPrompt(prompt, lng, useImageBrief, guard) ==
    [t |-> "string", head |-> IF lng = "ar" THEN "ar" ELSE "en",
     guard |-> guard, body |-> IF Truthy(prompt) THEN prompt ELSE StrEmpty]

TextPart(txt) == [inline |-> FALSE, text |-> txt]

(***************************************************************************)
(* Messages                                                                *)
(***************************************************************************)
Message(role, content, images, audio) ==
    [role |-> role, content |-> content, images |-> images, audio |-> audio]

safeRoleKeep(r) == r

safeRole(r) == IF r \in {"user", "model", "system"} THEN r ELSE "user"

IsNonBlankString(v) == v.t = "string" /\ ~v.blank

\* the first filter of normalizeMessagesWithMedia
KeepMessage(m) == m.content.t = "string" \/ Truthy(m.images) \/ Truthy(m.audio)

\* the turn built from message number i; injectNow: the guardrails go here
MessageTurn(m, i, injectNow, guard, acceptedImagePartsFromTop) ==
    LET content == IF IsNonBlankString(m.content) THEN m.content ELSE StrEmpty
        hasImgs == IsArray(m.images) /\ Len(m.images.items) > 0
        textParts ==
            IF injectNow
            THEN <<TextPart(wrapPrompt(content, chooseLang("", content), hasImgs, guard))>>
                 \o acceptedImagePartsFromTop
            ELSE IF IsNonBlankString(m.content) THEN <<TextPart(m.content)>>
            ELSE <<>>
        msgImgs == normalizeImageInputs(m.images, i)
        own == enforceImageLimits(msgImgs, MAX_INLINE_BYTES, MAX_INLINE_BYTES_TOTAL)
    IN  [role |-> safeRole(m.role),
         parts |-> textParts \o own.acceptedParts \o coerceAudioPart(m.audio, i)]

RECURSIVE normalizeFrom(_, _, _, _, _)
normalizeFrom(messages, i, injected, guard, acceptedImagePartsFromTop) ==
    IF i > Len(messages) THEN <<>>
    ELSE LET m == messages[i]
             injectNow == ~injected /\ m.role = "user"
             turn == MessageTurn(m, i, injectNow, guard, acceptedImagePartsFromTop)
         IN  IF ~KeepMessage(m)
             THEN normalizeFrom(messages, i + 1, injected, guard, acceptedImagePartsFromTop)
             ELSE (IF Len(turn.parts) > 0 THEN <<turn>> ELSE <<>>)
                  \o normalizeFrom(messages, i + 1, injected \/ injectNow, guard,
                                   acceptedImagePartsFromTop)

normalizeMessagesWithMedia(messages, guard, acceptedImagePartsFromTop) ==
    normalizeFrom(messages, 1, FALSE, guard, acceptedImagePartsFromTop)

(***************************************************************************)
(* Candidate models                                                        *)
(***************************************************************************)
DedupNone(s, seen) == s

RECURSIVE Dedup(_, _)
Dedup(s, seen) ==
    IF s = <<>> THEN <<>>
    ELSE IF Head(s) \in seen THEN Dedup(Tail(s), seen)
    ELSE <<Head(s)>> \o Dedup(Tail(s), seen \cup {Head(s)})

\* model "" stands for an absent (or otherwise falsy) model field
Candidates(model) ==
    IF model = "auto" \/ model = "" THEN MODEL_POOL
    ELSE Dedup(<<model>> \o MODEL_POOL, {})

(***************************************************************************)
(* Responses                                                               *)
(***************************************************************************)
\* a response: ids tells where it carries the requestId of the call ("header":
\* the X-Request-ID header, "body": a requestId field of the body), took
\* whether the body holds took_ms, upstream the status field of an upstream
\* error body (0: none) and failed the number of the candidate whose failure
\* the body reports (0: none), details the length of the details string of the
\* body (NoDetails: the body has none)
NoDetails == 0 - 1

Response(status, kind, model, error, ids, took, upstream, failed, details) ==
    [status |-> status, kind |-> kind, model |-> model, error |-> error,
     ids |-> ids, took |-> took, upstream |-> upstream, failed |-> failed,
     details |-> details]

NoResp == Response(0, "none", "", "", {}, FALSE, 0, 0, NoDetails)

\* resp(statusCode, baseHeaders, obj) with obj = {error: ...}
ErrorResp(status, error) ==
    Response(status, "error", "", error, {"header"}, FALSE, 0, 0, NoDetails)

SuccessResp(model) ==
    Response(200, "json", model, "", {"header", "body"}, TRUE, 0, 0, NoDetails)

StreamResp(model) ==
    Response(200, "sse", model, "", {"header", "body"}, TRUE, 0, 0, NoDetails)

\* the 413 of the handler: its reason is a string of 39 characters
AllRejectedResp ==
    Response(413, "error", "", "All images were rejected", {"header"}, FALSE, 0, 0, 39)

\* the handler's promise rejects: an error was thrown that nothing catches
\* (textPreview calls slice on a prompt that is no string, reader.read() fails)
RejectedPromise == Response(0, "rejected", "", "", {}, FALSE, 0, 0, NoDetails)

PreflightResp == Response(204, "empty", "", "", {"header"}, FALSE, 0, 0, NoDetails)

(***************************************************************************)
(* exports.handler up to the first upstream call                           *)
(***************************************************************************)
NoReq == [httpMethod |-> "none"]

MethodGateOpen(httpMethod) ==
    IF httpMethod = "OPTIONS" THEN "preflight" ELSE "pass"

\* the two tests on event.httpMethod that open the handler
MethodGate(httpMethod) ==
    IF httpMethod = "OPTIONS" THEN "preflight"
    ELSE IF httpMethod # "POST" THEN "notAllowed"
    ELSE "pass"

\* no generationConfig has been built (the handler returned before line 525)
NoConfig == [temperature |-> 0, topP |-> 0, maxOutputTokens |-> 0]

\* the images of all messages, as the handler's flatMap collects them
MsgImagesOf(messages) ==
    FlatSeq([i \in 1..Len(messages) |-> normalizeImageInputs(messages[i].images, i)])

\* the values the handler computes from event e before it either returns
\* (done) or enters the fallback loop
Prelude(e) ==
    LET msgs == IF IsArray(e.messages) THEN e.messages.items ELSE <<>>
        contentPreview ==
            textPreview(IF Truthy(e.prompt) THEN e.prompt ELSE JoinContents(msgs, 1))
        lng == chooseLang(e.force_lang, contentPreview)
        normalizedTopImages == normalizeImageInputs(e.images, 0)
        normalizedMsgImages == MsgImagesOf(msgs)
        allCandidateImages == normalizedTopImages \o normalizedMsgImages
        lim == enforceImageLimits(allCandidateImages, MAX_INLINE_BYTES,
                                  MAX_INLINE_BYTES_TOTAL)
        hadAnyImages == Len(allCandidateImages) > 0
        hasAcceptedImages == Len(lim.acceptedParts) > 0
        useImageBrief == e.concise \/ hasAcceptedImages
        guard == buildGuardrails(lng, useImageBrief, e.guard_level)
        built ==
            IF IsArray(e.messages)
            THEN normalizeMessagesWithMedia(msgs, guard, lim.acceptedParts)
            ELSE <<[role |-> "user",
                    parts |-> <<TextPart(wrapPrompt(e.prompt, lng, useImageBrief, guard))>>
                              \o lim.acceptedParts \o coerceAudioPart(e.audio, 0)]>>
        temperature ==
            clampNumber(WithDefault(e.temperature, Dec(0, 6)),
                        SAFE_TEMP_RANGE[1], SAFE_TEMP_RANGE[2], Dec(0, 6))
        top_p ==
            clampNumber(WithDefault(e.top_p, Dec(0, 9)),
                        SAFE_TOPP_RANGE[1], SAFE_TOPP_RANGE[2], Dec(0, 9))
        max_output_tokens ==
            clampNumber(WithDefault(e.max_output_tokens, Dec(2048, 0)),
                        Dec(1, 0), MAX_OUTPUT_TOKENS_HARD, Dec(2048, 0))
        timeout ==
            clampNumber(WithDefault(e.timeout_ms, DEFAULT_TIMEOUT_MS),
                        Dec(1000, 0), Dec(29000, 0), DEFAULT_TIMEOUT_MS)
        config == [temperature |-> temperature, topP |-> top_p,
                   maxOutputTokens |-> max_output_tokens]
        early(r) == [done |-> TRUE, response |-> r, lang |-> "", accepted |-> <<>>,
                     rejected |-> <<>>, totalBytes |-> 0, contents |-> <<>>,
                     candidates |-> <<>>, generationConfig |-> NoConfig,
                     timeout_ms |-> 0]
    IN  CASE MethodGate(e.httpMethod) = "preflight" -> early(PreflightResp)
          [] MethodGate(e.httpMethod) = "notAllowed" ->
               early(ErrorResp(405, "Method Not Allowed"))
          [] ~e.apiKey -> early(ErrorResp(500, "GEMINI_API_KEY is missing"))
          [] ~e.jsonOk -> early(ErrorResp(400, "Invalid JSON"))
          [] ~Truthy(e.prompt) /\ ~IsArray(e.messages) ->
               early(ErrorResp(400, "Missing prompt or messages[]"))
          [] Truthy(e.prompt) /\ e.prompt.t \notin {"string", "array"} ->
               early(RejectedPromise)
          [] hadAnyImages /\ ~hasAcceptedImages ->
               [done |-> TRUE, response |-> AllRejectedResp,
                lang |-> lng, accepted |-> lim.acceptedParts, rejected |-> lim.rejected,
                totalBytes |-> lim.totalBytes, contents |-> <<>>, candidates |-> <<>>,
                generationConfig |-> NoConfig, timeout_ms |-> 0]
          [] OTHER ->
               [done |-> FALSE, response |-> NoResp,
                lang |-> lng, accepted |-> lim.acceptedParts, rejected |-> lim.rejected,
                totalBytes |-> lim.totalBytes, contents |-> built,
                candidates |-> Candidates(e.model),
                generationConfig |-> config, timeout_ms |-> timeout]

\* the number of invocations of update-config
MaxUpdates == 3

\* an invocation of update-config before it is received: get and put are
\* the statuses of its two requests to the store (0: not answered), sha the
\* hash it holds (0: null)
NoUpdate == [pc |-> "idle", get |-> 0, sha |-> 0, put |-> 0, status |-> 0]

\* the configuration file does not exist (sha 0) and nothing was written
NoUpdates == [sha |-> 0, log |-> <<>>, req |-> [i \in 1..MaxUpdates |-> NoUpdate]]

\* the chat endpoint has not been invoked
NoChat ==
    [pc |-> "idle", ev |-> [httpMethod |-> "none"], secret_hash |-> <<>>, status |-> 0,
     sessionCalls |-> 0, storeCalls |-> 0]

\* no answer is being assembled
NoCont == [text |-> <<>>, prev |-> <<>>, last |-> <<>>, n |-> 0, time |-> TRUE]

InitRest ==
    /\ req = NoReq
    /\ lang = ""
    /\ accepted = <<>>
    /\ rejected = <<>>
    /\ totalBytes = 0
    /\ contents = <<>>
    /\ candidates = <<>>
    /\ generationConfig = NoConfig
    /\ timeout_ms = 0
    /\ mi = 0
    /\ attempt = 0
    /\ hist = <<>>
    /\ contacted = <<>>
    /\ nCalls = 0
    /\ sleeps = 0
    /\ delay = 0
    /\ response = NoResp
    /\ reads = 0
    /\ buffer = <<>>
    /\ sse = <<>>
    /\ received = <<>>
    /\ limOut = [acceptedParts |-> <<>>, rejected |-> <<>>, totalBytes |-> 0]
    /\ mirOut = Undef
    /\ cont = NoCont
    /\ chat = NoChat
    /\ upd = NoUpdates

NoMirror == [text |-> Undef, lang |-> ""]

Init ==
    /\ pc = "idle"
    /\ limIn = <<>>
    /\ mirIn = NoMirror
    /\ InitRest

\* the handler is invoked with event e and runs to its first await
Receive(e) ==
    /\ pc = "idle"
    /\ LET p == Prelude(e)
       IN  /\ req' = e
           /\ lang' = p.lang
           /\ accepted' = p.accepted
           /\ rejected' = p.rejected
           /\ totalBytes' = p.totalBytes
           /\ contents' = p.contents
           /\ candidates' = p.candidates
           /\ generationConfig' = p.generationConfig
           /\ timeout_ms' = p.timeout_ms
           /\ response' = p.response
           /\ pc' = IF p.done THEN "done" ELSE "fetch"
           /\ mi' = IF p.done THEN 0 ELSE 1
           /\ attempt' = IF p.done THEN 0 ELSE 1
    /\ UNCHANGED <<hist, contacted, nCalls, sleeps, delay, streamVars, limVars>>

(***************************************************************************)
(* Network and retry                                                       *)
(***************************************************************************)
\* what one upstream call comes to: fetch (or the reading of the body) throws,
\* or a response with a status arrives, whose body holds text or not.
\* cause tells why it threw ("timeout": the timer aborted it, "network"), json
\* whether the body of an error response is JSON with an error.message, msg
\* the length of e.message, of error.message or of the raw body, and late
\* whether the timer's delay ran out after fetch had resolved, while the body
\* was still being read
AnswerOf(thrown, status, text, cause, json, msg, late) ==
    [thrown |-> thrown, status |-> status, text |-> text, cause |-> cause,
     json |-> json, msg |-> msg, late |-> late]
Answer(thrown, status, text) ==
    AnswerOf(thrown, status, text, IF thrown THEN "network" ELSE "", FALSE, 20, FALSE)
Thrown == Answer(TRUE, 0, FALSE)
TimedOut == AnswerOf(TRUE, 0, FALSE, "timeout", FALSE, 20, FALSE)
Answers ==
    {Thrown, Answer(FALSE, 200, TRUE), Answer(FALSE, 200, FALSE),
     Answer(FALSE, 400, FALSE), Answer(FALSE, 429, FALSE), Answer(FALSE, 500, FALSE)}
PlainAnswers == {Answer(FALSE, 200, TRUE), Answer(FALSE, 400, FALSE)}
EmptyAnswers == {Answer(FALSE, 200, FALSE)}

\* response.ok
IsOk(status) == status >= 200 /\ status <= 299

shouldRetryNever(status) == FALSE

shouldRetryAny(status) == TRUE

shouldRetry(status) == status = 429 \/ (status >= 500 /\ status <= 599)

mapStatus(status) ==
    IF status = 429 THEN 429
    ELSE IF status >= 500 THEN 502
    ELSE IF status # 0 THEN status ELSE 500

\* the length of the details of collectUpstreamError(status, data, text)
collectUpstreamError(a) == IF a.json THEN a.msg ELSE Min(a.msg, 1000)

tryJSONOnceStepNoTextCheck(a, att) ==
    IF a.thrown
    THEN IF att < MAX_TRIES THEN [k |-> "retry"]
         ELSE [k |-> "fail", statusCode |-> 500, error |-> "Network/timeout",
               upstream |-> 0, details |-> a.msg]
    ELSE IF ~IsOk(a.status)
    THEN IF shouldRetry(a.status) /\ att < MAX_TRIES THEN [k |-> "retry"]
         ELSE [k |-> "fail", statusCode |-> mapStatus(a.status),
               error |-> "Upstream error", upstream |-> a.status,
               details |-> collectUpstreamError(a)]
    ELSE [k |-> "ok"]

\* result of one pass of the attempt loop of tryJSONOnce
tryJSONOnceStep(a, att) ==
    IF a.thrown
    THEN IF att < MAX_TRIES THEN [k |-> "retry"]
         ELSE [k |-> "fail", statusCode |-> 500, error |-> "Network/timeout",
               upstream |-> 0, details |-> a.msg]
    ELSE IF ~IsOk(a.status)
    THEN IF shouldRetry(a.status) /\ att < MAX_TRIES THEN [k |-> "retry"]
         ELSE [k |-> "fail", statusCode |-> mapStatus(a.status),
               error |-> "Upstream error", upstream |-> a.status,
               details |-> collectUpstreamError(a)]
    ELSE IF ~a.text
    THEN [k |-> "fail", statusCode |-> 502, error |-> "Empty/blocked response",
          upstream |-> 0, details |-> NoDetails]
    ELSE [k |-> "ok"]

tryStreamOnceStepOneMore(a, att) ==
    IF a.thrown
    THEN IF att <= MAX_TRIES THEN [k |-> "retry"]
         ELSE [k |-> "fail", statusCode |-> 500, error |-> "Network/timeout",
               upstream |-> 0, details |-> a.msg]
    ELSE IF ~IsOk(a.status)
    THEN IF shouldRetry(a.status) /\ att <= MAX_TRIES THEN [k |-> "retry"]
         ELSE [k |-> "fail", statusCode |-> mapStatus(a.status),
               error |-> "Upstream error", upstream |-> a.status,
               details |-> collectUpstreamError(a)]
    ELSE [k |-> "ok"]

\* result of one pass of the attempt loop of tryStreamOnce
tryStreamOnceStep(a, att) ==
    IF a.thrown
    THEN IF att < MAX_TRIES THEN [k |-> "retry"]
         ELSE [k |-> "fail", statusCode |-> 500, error |-> "Network/timeout",
               upstream |-> 0, details |-> a.msg]
    ELSE IF ~IsOk(a.status)
    THEN IF shouldRetry(a.status) /\ att < MAX_TRIES THEN [k |-> "retry"]
         ELSE [k |-> "fail", statusCode |-> mapStatus(a.status),
               error |-> "Upstream error", upstream |-> a.status,
               details |-> collectUpstreamError(a)]
    ELSE [k |-> "ok"]

sleepWithJitterFlat(att, jitter) == BASE_BACKOFF_MS + jitter

\* sleepWithJitter(attempt): base delay plus a jitter in 0..399
RECURSIVE Pow2(_)
Pow2(n) == IF n <= 0 THEN 1 ELSE 2 * Pow2(n - 1)
Jitters == {0, 399}
sleepWithJitter(att, jitter) == BASE_BACKOFF_MS * Pow2(att - 1) + jitter

\* the response returned once the last candidate, number i, has failed with
\* result r: not streaming, the result's error with requestId and lang added
FinalFailure(r, i) ==
    Response(IF r.statusCode # 0 THEN r.statusCode ELSE 502, "error", "", r.error,
             {"header", "body"}, FALSE, r.upstream, i, r.details)

\* streaming: the errorResp that tryStreamOnce built, with headers of its own
StreamFailure(r, i) ==
    Response(r.statusCode, "error", "", r.error, {}, FALSE, r.upstream, i,
             r.details)

\* does the fallback loop stop at candidate number i after its failure
IsLastCandidateEarly(i, n) == i >= n - 2

IsLastCandidate(i, n) == i = n - 1

ChosenModelFirst(cands, i) == cands[1]

\* const m = candidates[mi], the model the current pass of the loop calls
ChosenModel(cands, i) == cands[i]

NextCandidateSkip(i) == i + 2

\* mi++ of the fallback loop
NextCandidate(i) == i + 1

\* no upstream call has yet been made to candidate number i
IsFirstCall(i, called) == \A k \in 1..Len(called) : called[k] # i

MetaEvent(model, lng) ==
    [event |-> "meta", data |-> <<>>, model |-> model, lang |-> lng]
ChunkEvent(line) == [event |-> "chunk", data |-> line, model |-> "", lang |-> ""]
EndEvent(model) == [event |-> "end", data |-> <<>>, model |-> model, lang |-> ""]

YieldFront(out, events) == events \o out

\* the generator yields events: streamBody appends them to what it collected
Yield(out, events) == out \o events

\* an upstream call to the current candidate completes with answer a, and
\* the handler runs to its next await or to its return
FetchReturns(a) ==
    /\ pc = "fetch"
    /\ nCalls' = nCalls + 1
    /\ contacted' = IF IsFirstCall(mi, contacted) THEN Append(contacted, mi) ELSE contacted
    /\ hist' = IF IsFirstCall(mi, contacted) THEN <<a>> ELSE Append(hist, a)
    /\ LET r == IF req.stream THEN tryStreamOnceStep(a, attempt)
                ELSE tryJSONOnceStep(a, attempt)
       IN  CASE r.k = "retry" ->
                  /\ pc' = "sleep"
                  /\ \E j \in Jitters : delay' = sleepWithJitter(attempt, j)
                  /\ sleeps' = sleeps + 1
                  /\ UNCHANGED <<mi, attempt, response, sse>>
             [] r.k = "ok" /\ ~req.stream ->
                  /\ pc' = "done"
                  /\ response' = SuccessResp(ChosenModel(candidates, mi))
                  /\ UNCHANGED <<mi, attempt, sleeps, delay, sse>>
             [] r.k = "ok" /\ req.stream ->
                  /\ pc' = "read"
                  /\ sse' = Yield(<<>>, <<MetaEvent(ChosenModel(candidates, mi), lang)>>)
                  /\ UNCHANGED <<mi, attempt, sleeps, delay, response>>
             [] r.k = "fail" /\ IsLastCandidate(mi - 1, Len(candidates)) ->
                  /\ pc' = "done"
                  /\ response' = IF req.stream THEN StreamFailure(r, mi)
                                  ELSE FinalFailure(r, mi)
                  /\ UNCHANGED <<mi, attempt, sleeps, delay, sse>>
             [] OTHER ->
                  /\ pc' = "fetch"
                  /\ mi' = NextCandidate(mi)
                  /\ attempt' = 1
                  /\ UNCHANGED <<sleeps, delay, response, sse>>
    /\ UNCHANGED <<reqVars, reads, buffer, received, limVars>>

\* the backoff delay ends and the attempt loop continues
Wake ==
    /\ pc = "sleep"
    /\ pc' = "fetch"
    /\ attempt' = attempt + 1
    /\ delay' = 0
    /\ UNCHANGED <<reqVars, mi, hist, contacted, nCalls, sleeps, response,
                   streamVars, limVars>>

(***************************************************************************)
(* The stream generator (characters: "x", "y" visible ones, " " and "\n")  *)
(***************************************************************************)
ReadValues == {<<"x">>, <<"x", "\n">>, <<"y", "\n">>, <<" ", "\n">>}

RECURSIVE SplitLines(_)
\* s.split("\n")
SplitLines(s) ==
    IF \A i \in 1..Len(s) : s[i] # "\n" THEN <<s>>
    ELSE LET k == CHOOSE i \in 1..Len(s) :
                     s[i] = "\n" /\ \A j \in 1..(i - 1) : s[j] # "\n"
         IN  <<SubSeq(s, 1, k - 1)>> \o SplitLines(SubSeq(s, k + 1, Len(s)))

RECURSIVE Trim(_)
\* s.trim()
Trim(s) ==
    IF s = <<>> THEN s
    ELSE IF Head(s) \in {" ", "\n"} THEN Trim(Tail(s))
    ELSE IF s[Len(s)] \in {" ", "\n"} THEN Trim(SubSeq(s, 1, Len(s) - 1))
    ELSE s

RECURSIVE ChunkEvents(_)
\* the chunk events yielded for the complete lines of one read
ChunkEvents(lines) ==
    IF lines = <<>> THEN <<>>
    ELSE (IF Trim(Head(lines)) = <<>> THEN <<>> ELSE <<ChunkEvent(Trim(Head(lines)))>>)
         \o ChunkEvents(Tail(lines))


\* reader.read() resolves with a value
ReadChunk(v) ==
    /\ pc = "read"
    /\ reads < MaxReads
    /\ reads' = reads + 1
    /\ LET lines == SplitLines(buffer \o v)
       IN  /\ buffer' = lines[Len(lines)]
           /\ sse' = Yield(sse, ChunkEvents(SubSeq(lines, 1, Len(lines) - 1)))
    /\ received' = received \o v
    /\ UNCHANGED <<pc, reqVars, loopVars, response, limVars>>

\* reader.read() resolves with done: the generator ends, the handler returns
ReadDone ==
    /\ pc = "read"
    /\ pc' = "done"
    /\ sse' = Yield(sse, <<EndEvent(ChosenModel(candidates, mi))>>)
    /\ response' = StreamResp(ChosenModel(candidates, mi))
    /\ UNCHANGED <<reqVars, loopVars, reads, buffer, received, limVars>>

ReadErrorRetry ==
    /\ pc = "read"
    /\ pc' = "fetch"
    /\ UNCHANGED <<reqVars, loopVars, response, streamVars, limVars>>

\* reader.read() rejects: nothing catches it, the handler's promise rejects
ReadError ==
    /\ pc = "read"
    /\ pc' = "done"
    /\ response' = RejectedPromise
    /\ UNCHANGED <<reqVars, loopVars, streamVars, limVars>>

(***************************************************************************)
(* Inbound events                                                          *)
(***************************************************************************)
Event(httpMethod, apiKey, jsonOk, prompt, messages, images, audio, model, stream) ==
    [httpMethod |-> httpMethod, apiKey |-> apiKey, jsonOk |-> jsonOk,
     prompt |-> prompt, messages |-> messages, images |-> images, audio |-> audio,
     model |-> model, stream |-> stream,
     force_lang |-> "", guard_level |-> "strict", concise |-> FALSE,
     temperature |-> Undef, top_p |-> Undef, max_output_tokens |-> Undef,
     timeout_ms |-> Undef]

UserText == Message("user", StrEn, Undef, Undef)

\* the method gate, the credential check and the parsing of the body
GateEvents ==
    {Event(m, k, j, StrEn, Undef, Undef, Undef, "auto", FALSE) :
        m \in {"POST", "OPTIONS", "GET", "PUT"}, k \in BOOLEAN, j \in BOOLEAN}

\* the shapes of prompt and messages
ShapeEvents ==
    {Event("POST", TRUE, TRUE, p, ms, Undef, Undef, "auto", st) :
        p \in {Undef, StrEmpty, StrEn},
        ms \in {Undef, NotArray, Arr(<<>>), Arr(<<UserText>>)},
        st \in BOOLEAN}

\* the requested model and the execution mode
ModelEvents ==
    {Event("POST", TRUE, TRUE, StrEn, Undef, Undef, Undef, md, st) :
        md \in {"auto", "", MODEL_POOL[3], "my-tuned-model"}, st \in BOOLEAN}

Events == GateEvents \cup ShapeEvents \cup ModelEvents

ImgAtLimit == Media("dataUrl", "image/png", B64AtLimit)
ImgSmall == Media("object", "image/png", B64Small)
ImgBadType == Media("object", "video/mp4", B64Padded)
ImgOver == Media("object", "image/png", B64Over)
ImgEmpty == Media("dataUrl", "image/png", B64Empty)
ImgOther == Media("other", "", B64Empty)
AudAtLimit == Media("object", "audio/mp3", B64AtLimit)
AudBadType == Media("object", "video/mp4", B64Small)
AudOver == Media("dataUrl", "audio/mp3", B64Over)

ImageLists(items, n) == {Arr(l) : l \in SeqsUpTo(items, n)} \cup {Undef}

\* a single prompt with top-level media
PromptMediaEvents ==
    {Event("POST", TRUE, TRUE, StrEn, Undef, imgs, aud, "auto", FALSE) :
        imgs \in ImageLists({ImgAtLimit, ImgBadType, ImgOver, ImgOther}, MaxTopImgs),
        aud \in {Undef, AudAtLimit, AudBadType, AudOver}}

\* messages carrying at most one kind of media each
MsgPool ==
    {Message(r, StrEn, imgs, Undef) :
        r \in {"user", "model"},
        imgs \in {Undef, Arr(<<ImgAtLimit>>), Arr(<<ImgAtLimit, ImgAtLimit>>),
                  Arr(<<ImgBadType>>)}}
    \cup {Message(r, StrEn, Undef, aud) :
            r \in {"user", "model"}, aud \in {AudAtLimit, AudBadType}}

\* a conversation with per-message and top-level media
MsgMediaEvents ==
    {Event("POST", TRUE, TRUE, Undef, Arr(ms), imgs, aud, "auto", FALSE) :
        ms \in SeqsUpTo(MsgPool, MaxMsgs),
        imgs \in ImageLists({ImgAtLimit, ImgBadType}, MaxTopImgs),
        aud \in {Undef, AudAtLimit}}

MediaEvents == PromptMediaEvents \cup MsgMediaEvents

\* values a numeric field of the body can hold after JSON.parse (1e999 parses
\* to Infinity, -1e999 to -Infinity; NaN arrives only as the string "NaN")
ParamValues ==
    {Undef, Null, Bool(TRUE), Bool(FALSE), StrEmpty, StrEn, NotArray, Arr(<<>>),
     Arr(<<NumberValue(Finite(Dec(3, 0)))>>),
     NumStr(Finite(Dec(0, 5))), NumStr(Finite(Dec(50000, 0))), NumStr(NaN),
     NumStr(PosInf),
     NumberValue(Finite(Dec(0, 5))), NumberValue(Finite(0 - Dec(0, 5))),
     NumberValue(Finite(Dec(1, 5))), NumberValue(Finite(Dec(5000, 0))),
     NumberValue(Finite(Dec(100000, 0))), NumberValue(PosInf), NumberValue(NegInf)}

\* messages without media: role "" stands for an absent role, "assistant"
\* for a role the upstream API does not know
TurnPool ==
    {Message(r, c, Undef, Undef) :
        r \in {"user", "model", "system", "assistant", ""},
        c \in {StrEn, StrAr, StrBlank, Undef}}

\* a conversation of text messages
TurnEvents ==
    {Event("POST", TRUE, TRUE, Undef, Arr(ms), Undef, Undef, "auto", FALSE) :
        ms \in SeqsUpTo(TurnPool, MaxMsgs)}
    \cup {Event("POST", TRUE, TRUE, p, Undef, Undef, Undef, "auto", FALSE) :
            p \in {StrEn, StrAr}}

\* texts around the 6000-character preview: an Arabic character in place
\* 6000, one in place 6001, and texts of 5997 and 5999 characters without one
StrEdge == Str(6000, 6000, FALSE)
StrLate == Str(6005, 6001, FALSE)
StrLong == Str(5999, 0, FALSE)
StrLongish == Str(5997, 0, FALSE)

\* requests with a prompt, messages or both, in either language, and any
\* force_lang ("": absent, "fr": a value that is neither "ar" nor "en")
LangEvents ==
    {[Event("POST", TRUE, TRUE, p, ms, Undef, Undef, "auto", FALSE)
        EXCEPT !.force_lang = f] :
        p \in {Undef, StrEn, StrAr, StrEdge, StrLate},
        ms \in {Undef} \cup
               {Arr(l) : l \in SeqsUpTo({Message("user", c, Undef, Undef) :
                                            c \in {StrEn, StrAr, StrLong, StrLongish}},
                                         MaxMsgs)},
        f \in {"", "ar", "en", "fr"}}

PlainEvent == Event("POST", TRUE, TRUE, StrEn, Undef, Undef, Undef, "auto", FALSE)

\* a prompt in either mode, for the whole pool or one model, with the default
\* timeout or one of 5000 ms
UpstreamEvents ==
    {[Event("POST", TRUE, TRUE, StrEn, Undef, Undef, Undef, md, st)
        EXCEPT !.timeout_ms = t] :
        md \in {"auto", "my-tuned-model"}, st \in BOOLEAN,
        t \in {Undef, NumberValue(Finite(Dec(5000, 0)))}}

\* valid JSON whose prompt is a number or a boolean
OddPromptEvents ==
    {Event("POST", TRUE, TRUE, p, Undef, Undef, Undef, "auto", FALSE) :
        p \in {NumberValue(Finite(Dec(5, 0))), Bool(TRUE)}}

\* upstream behaviours told apart by cause, body and timing: a timeout, a
\* network error with a message of 5000 characters, a 429, a 503 whose JSON
\* body has an error.message of 5000 characters, a 400 with 5000 characters
\* of raw text, a 200 without text, a 200 with text, and a 200 with text whose
\* body was still being read when the timer's delay ran out
DetailAnswers ==
    {TimedOut,
     AnswerOf(TRUE, 0, FALSE, "network", FALSE, 5000, FALSE),
     Answer(FALSE, 429, FALSE),
     AnswerOf(FALSE, 503, FALSE, "", TRUE, 5000, FALSE),
     AnswerOf(FALSE, 400, FALSE, "", FALSE, 5000, FALSE),
     Answer(FALSE, 200, FALSE),
     Answer(FALSE, 200, TRUE),
     AnswerOf(FALSE, 200, TRUE, "", FALSE, 20, TRUE)}

\* a prompt with one numeric field set, or all four set to the same value
ParamEvents ==
    {[PlainEvent EXCEPT !.temperature = v] : v \in ParamValues}
    \cup {[PlainEvent EXCEPT !.top_p = v] : v \in ParamValues}
    \cup {[PlainEvent EXCEPT !.max_output_tokens = v] : v \in ParamValues}
    \cup {[PlainEvent EXCEPT !.timeout_ms = v] : v \in ParamValues}
    \cup {[PlainEvent EXCEPT !.temperature = v, !.top_p = v,
                             !.max_output_tokens = v, !.timeout_ms = v] :
            v \in ParamValues}

(***************************************************************************)
(* Auto-continuation of a truncated answer. Texts are sequences of the     *)
(* characters "a", "b", ".", which stands for the ellipsis, "-" and ">",   *)
(* which stands for a "to be continued" marker.                            *)
(***************************************************************************)
\* the longest chunk drawn character by character
MaxChunk == 2

\* the chunk budget of one request (default)
MaxContinuationChunks == 4

\* the longest overlap that is removed
MaxOverlap == 200

ChunkChars == {"a", "b", ".", "-", ">"}

\* the character c, n times
Rep(c, n) == [i \in 1..n |-> c]

\* 50 characters ending in an ellipsis, and 205 of them
Tail50 == Rep("a", 49) \o <<".">>
Tail205 == Rep("a", 204) \o <<".">>

FirstChunks == SeqsUpTo(ChunkChars, MaxChunk) \cup {<<"b">> \o Tail50, Tail205}
NextChunks ==
    {<<>>, <<"a">>, <<".">>, <<".", "b">>, <<"a", ".">>, <<"b", "-">>,
     Tail50 \o <<"b">>, Tail205 \o <<"b">>}

\* the text ends with an ellipsis, a "to be continued" marker or a dangling
\* hyphen
EndsTruncated(text) == text # <<>> /\ text[Len(text)] \in {".", "-", ">"}

\* another chunk is asked for: the text looks truncated and the chunk budget
\* and the remaining time allow it
ShouldContinue(c) ==
    EndsTruncated(c.text) /\ c.n < MaxContinuationChunks /\ c.time

OverlapNone(a, b) == 0

\* the longest k, of at most MaxOverlap, such that the last k characters of a
\* are the first k characters of b
Overlap(a, b) ==
    LET ks == {k \in 0..Min(MaxOverlap, Min(Len(a), Len(b))) :
                  SubSeq(a, Len(a) - k + 1, Len(a)) = SubSeq(b, 1, k)}
    IN  CHOOSE k \in ks : \A j \in ks : j <= k

\* the previous text and the new chunk joined, the overlap dropped
Stitch(a, b) == a \o SubSeq(b, Overlap(a, b) + 1, Len(b))

\* the first upstream answer arrives with text c; time tells whether more
\* than 2.5 s of the time budget remain
FirstChunk(c, time) ==
    /\ pc = "idle"
    /\ pc' = "generated"
    /\ cont' = [text |-> c, prev |-> <<>>, last |-> c, n |-> 1, time |-> time]
    /\ UNCHANGED <<reqVars, loopVars, response, streamVars, limIn, limOut, mirIn, mirOut,
                   chat, upd>>

\* the continuation call is made and answers with text c
ContinueWith(c, time) ==
    /\ pc = "generated"
    /\ ShouldContinue(cont)
    /\ cont' = [text |-> Stitch(cont.text, c), prev |-> cont.text, last |-> c,
                n |-> cont.n + 1, time |-> time]
    /\ UNCHANGED <<pc, reqVars, loopVars, response, streamVars, limIn, limOut, mirIn,
                   mirOut, chat, upd>>

\* nothing more is asked for: the assembled text is returned
ReturnText ==
    /\ pc = "generated"
    /\ ~ShouldContinue(cont)
    /\ pc' = "assembled"
    /\ UNCHANGED <<reqVars, loopVars, response, streamVars, limVars>>

(***************************************************************************)
(* The signed chat endpoint. Strings are sequences of characters, <<>> the *)
(* empty or absent one; a timestamp has its text, whether Number() of it   *)
(* is a number, and its age Date.now() - Number(timestamp) in ms.          *)
(***************************************************************************)
\* the variables of the proxy handler and of the function-level runs
proxyVars ==
    <<pc, reqVars, loopVars, response, streamVars, limIn, limOut, mirIn, mirOut, cont>>

\* sha256hex: a digest stands for the string it was made of
sha256hex(s) == [sha |-> s]

FiveMinutes == 5 * 60 * 1000

Abs(n) == IF n < 0 THEN 0 - n ELSE n

Timestamp(str, num, age) == [str |-> str, num |-> num, age |-> age]
TsNone == Timestamp(<<>>, FALSE, 0)
Timestamps ==
    {TsNone,
     Timestamp(<<"1">>, TRUE, 0),
     Timestamp(<<"2">>, TRUE, FiveMinutes),
     Timestamp(<<"3">>, TRUE, FiveMinutes + 1),
     Timestamp(<<"4">>, TRUE, 0 - (FiveMinutes + 1)),
     Timestamp(<<"x">>, FALSE, 0)}

\* the sessions table: one session, whose secret_hash is the digest of "p"
Sessions == {<<"s">>}
SecretHashOf(session_id) == sha256hex(<<"p">>)

\* the text that verify is given as bodyText
BodyText(e) == IF e.httpMethod = "GET" THEN <<>> ELSE e.text

\* verify: Math.abs(NaN) > n is false, so a timestamp that is no number
\* passes the first test
verify(session_id, timestamp, bodyText, signature, secret_hash, proof) ==
    /\ ~(timestamp.str = <<>> \/ (timestamp.num /\ Abs(timestamp.age) > FiveMinutes))
    /\ sha256hex(proof) = secret_hash
    /\ sha256hex(session_id \o proof \o timestamp.str \o bodyText) = signature

ChatEvent(httpMethod, jsonOk, session_id, proof, timestamp, signature, role, text) ==
    [httpMethod |-> httpMethod, jsonOk |-> jsonOk, session_id |-> session_id,
     proof |-> proof, timestamp |-> timestamp, signature |-> signature,
     role |-> role, text |-> text]

\* a signature is absent, the digest of another string, or the digest of the
\* request's fields with or without the text
Signatures(session_id, proof, timestamp, text) ==
    {<<>>, sha256hex(<<"z">>),
     sha256hex(session_id \o proof \o timestamp.str),
     sha256hex(session_id \o proof \o timestamp.str \o text)}

ChatEvents ==
    UNION {{ChatEvent(m, j, sid, pr, ts, sg, <<"r">>, tx) :
               sg \in Signatures(sid, pr, ts, tx)} :
            m \in {"GET", "POST", "PUT"}, j \in BOOLEAN,
            sid \in {<<>>, <<"s">>, <<"u">>}, pr \in {<<>>, <<"p">>, <<"q">>},
            ts \in Timestamps, tx \in {<<>>, <<"t">>}}

\* the handler is invoked and runs to its first await or to its return
ChatReceive(e) ==
    /\ chat.pc = "idle"
    /\ (e.httpMethod = "POST" \/ e.jsonOk)
    /\ LET missing ==
               \/ e.session_id = <<>> \/ e.proof = <<>>
               \/ e.timestamp.str = <<>> \/ e.signature = <<>>
               \/ (e.httpMethod = "POST" /\ (e.role = <<>> \/ e.text = <<>>))
           status ==
               CASE e.httpMethod \notin {"GET", "POST"} -> 405
                 [] e.httpMethod = "POST" /\ ~e.jsonOk -> 500
                 [] missing -> 400
                 [] OTHER -> 0
       IN  chat' = [chat EXCEPT !.ev = e, !.status = status,
                                !.pc = IF status = 0 THEN "session" ELSE "done",
                                !.sessionCalls = IF status = 0 THEN 1 ELSE 0]
    /\ UNCHANGED <<proxyVars, upd>>

\* getSecretHash returns or throws; found: the request to the sessions table
\* was answered with success
ChatSession(found) ==
    /\ chat.pc = "session"
    /\ LET e == chat.ev
           secret_hash == SecretHashOf(e.session_id)
       IN  IF ~found \/ e.session_id \notin Sessions
           THEN chat' = [chat EXCEPT !.pc = "done", !.status = 500]
           ELSE IF ~verify(e.session_id, e.timestamp, BodyText(e), e.signature,
                           secret_hash, e.proof)
           THEN chat' = [chat EXCEPT !.pc = "done", !.status = 401,
                                     !.secret_hash = secret_hash]
           ELSE chat' = [chat EXCEPT !.pc = "store", !.secret_hash = secret_hash,
                                     !.storeCalls = 1]
    /\ UNCHANGED <<proxyVars, upd>>

\* the request to the messages table is answered
ChatStore(success) ==
    /\ chat.pc = "store"
    /\ chat' = [chat EXCEPT !.pc = "done", !.status = IF success THEN 200 ELSE 500]
    /\ UNCHANGED <<proxyVars, upd>>

(***************************************************************************)
(* update-config against a store that keeps one file under a content hash  *)
(* (0: the file does not exist) and rejects a write whose hash is stale.    *)
(***************************************************************************)
UpdateEvent(httpMethod, bearer, jsonOk) ==
    [httpMethod |-> httpMethod, bearer |-> bearer, jsonOk |-> jsonOk]

UpdateEvents ==
    {UpdateEvent(m, b, j) : m \in {"POST", "GET"}, b \in BOOLEAN, j \in BOOLEAN}

\* invocation i is received and runs to its GET or to an early return
UpdateReceive(i, e) ==
    /\ upd.req[i].pc = "idle"
    /\ LET status ==
               CASE e.httpMethod # "POST" -> 405
                 [] ~e.bearer -> 401
                 [] ~e.jsonOk -> 400
                 [] OTHER -> 0
       IN  upd' = [upd EXCEPT !.req[i].status = status,
                              !.req[i].pc = IF status = 0 THEN "get" ELSE "done"]
    /\ UNCHANGED <<proxyVars, chat>>

\* what the store answers to a read: 404 without the file, else 200 and
\* the file's hash, or a failure
GetAnswers ==
    {IF upd.sha = 0 THEN [status |-> 404, sha |-> 0] ELSE [status |-> 200, sha |-> upd.sha],
     [status |-> 403, sha |-> 0], [status |-> 500, sha |-> 0]}

Ok(status) == status >= 200 /\ status <= 299

shaOfNull(getRes) == 0

\* let sha = null; if (getRes.ok) sha = j.sha
shaOf(getRes) == IF Ok(getRes.status) THEN getRes.sha ELSE 0

\* the GET of invocation i is answered; the handler returns its status or
\* goes on to the PUT
UpdateGet(i, getRes) ==
    /\ upd.req[i].pc = "get"
    /\ IF getRes.status # 404 /\ ~Ok(getRes.status)
       THEN upd' = [upd EXCEPT !.req[i].get = getRes.status,
                               !.req[i].status = getRes.status,
                               !.req[i].pc = "done"]
       ELSE upd' = [upd EXCEPT !.req[i].get = getRes.status,
                               !.req[i].sha = shaOf(getRes),
                               !.req[i].pc = "put"]
    /\ UNCHANGED <<proxyVars, chat>>

\* the store's answer to a write carrying sha: created or updated when the
\* hash is the file's, 422 for a missing hash, 409 for a stale one
PutStatus(sha) ==
    CASE sha = upd.sha -> IF sha = 0 THEN 201 ELSE 200
      [] sha = 0 -> 422
      [] OTHER -> 409

\* the PUT of invocation i arrives at the store and is answered; failed:
\* the store fails for another reason
UpdatePut(i, failed) ==
    /\ upd.req[i].pc = "put"
    /\ LET sha == upd.req[i].sha
           putRes == IF failed THEN 500 ELSE PutStatus(sha)
       IN  upd' = [upd EXCEPT
                     !.sha = IF Ok(putRes) THEN upd.sha + 1 ELSE upd.sha,
                     !.log = IF Ok(putRes)
                             THEN Append(upd.log, [by |-> i, sha |-> sha, over |-> upd.sha])
                             ELSE upd.log,
                     !.req[i].put = putRes,
                     !.req[i].status = IF Ok(putRes) THEN 200 ELSE putRes,
                     !.req[i].pc = "done"]
    /\ UNCHANGED <<proxyVars, chat>>

(***************************************************************************)
(* Specifications                                                          *)
(***************************************************************************)
ReceiveEvent == \E e \in Events : Receive(e)
Fetch == \E a \in Answers : FetchReturns(a)
Read == \E v \in ReadValues : ReadChunk(v)

Next == ReceiveEvent \/ Fetch \/ Wake \/ Read \/ ReadDone \/ ReadError

\* the handler under every upstream behaviour, requests without media
Spec == Init /\ [][Next]_vars

\* every upstream call, every backoff timer and every read of a stream body
\* completes
Completion ==
    /\ WF_vars(Fetch)
    /\ WF_vars(Wake)
    /\ WF_vars(Read \/ ReadDone \/ ReadError)

\* the handler when nothing it awaits hangs
SpecLive == Init /\ [][Next]_vars /\ Completion

ReceiveMedia == \E e \in MediaEvents : Receive(e)
FetchPlain == \E a \in PlainAnswers : FetchReturns(a)

NextMedia == ReceiveMedia \/ FetchPlain

\* the handler on requests with media, the upstream answering 200 or 400
SpecMedia == Init /\ [][NextMedia]_vars

FetchEmpty == \E a \in EmptyAnswers : FetchReturns(a)

NextEmpty == ReceiveEvent \/ FetchEmpty \/ Read \/ ReadDone \/ ReadError

\* the handler when every upstream call answers 200 with no text in the body
SpecEmpty == Init /\ [][NextEmpty]_vars

ReceiveTurns == \E e \in TurnEvents : Receive(e)

NextTurns == ReceiveTurns \/ FetchPlain

\* the handler on conversations of text messages with any roles
SpecTurns == Init /\ [][NextTurns]_vars

ReceiveLang == \E e \in LangEvents : Receive(e)

NextLang == ReceiveLang \/ FetchPlain

\* the handler on requests whose texts and force_lang vary
SpecLang == Init /\ [][NextLang]_vars

ReceiveUpstream ==
    \E e \in UpstreamEvents \cup GateEvents \cup OddPromptEvents : Receive(e)
FetchDetail == \E a \in DetailAnswers : FetchReturns(a)

NextUpstream == ReceiveUpstream \/ FetchDetail \/ Wake \/ Read \/ ReadDone \/ ReadError

\* the handler on a plain prompt, the upstream failing in every way
SpecUpstream == Init /\ [][NextUpstream]_vars

FirstAnswer == \E c \in FirstChunks, time \in BOOLEAN : FirstChunk(c, time)
Continue == \E c \in NextChunks : ContinueWith(c, cont.time) \/ ContinueWith(c, FALSE)

NextContinue == FirstAnswer \/ Continue \/ ReturnText

\* the assembling of one answer from the chunks of successive upstream calls
SpecContinue == Init /\ [][NextContinue]_vars

ReceiveChat == \E e \in ChatEvents : ChatReceive(e)
SessionAnswer == \E found \in BOOLEAN : ChatSession(found)
StoreAnswer == \E success \in BOOLEAN : ChatStore(success)

NextChat == ReceiveChat \/ SessionAnswer \/ StoreAnswer

\* one invocation of the chat endpoint
SpecChat == Init /\ [][NextChat]_vars

ReceiveUpdate == \E i \in 1..MaxUpdates, e \in UpdateEvents : UpdateReceive(i, e)
GetAnswer == \E i \in 1..MaxUpdates : \E getRes \in GetAnswers : UpdateGet(i, getRes)
PutAnswer == \E i \in 1..MaxUpdates, failed \in BOOLEAN : UpdatePut(i, failed)

NextUpdate == ReceiveUpdate \/ GetAnswer \/ PutAnswer

\* interleaved invocations of update-config
SpecUpdate == Init /\ [][NextUpdate]_vars

ReceiveParams == \E e \in ParamEvents : Receive(e)

NextParams == ReceiveParams \/ FetchPlain

\* the handler on requests that set the numeric fields of the body
SpecParams == Init /\ [][NextParams]_vars

LimitItems == {ImgAtLimit, ImgSmall, ImgBadType, ImgOver, ImgEmpty,
               Media("object", "video/mp4", B64Over)}

InitLimits ==
    /\ pc = "limits"
    /\ limIn \in {normalizeImageInputs(Arr(l), 0) : l \in SeqsUpTo(LimitItems, MaxItems)}
    /\ mirIn = NoMirror
    /\ InitRest

\* enforceImageLimits applied to the drawn list with the handler's ceilings
ApplyLimits ==
    /\ pc = "limits"
    /\ pc' = "limited"
    /\ limOut' = enforceImageLimits(limIn, MAX_INLINE_BYTES, MAX_INLINE_BYTES_TOTAL)
    /\ UNCHANGED <<reqVars, loopVars, response, streamVars, limIn, mirIn, mirOut, cont,
                   chat, upd>>

NextLimits == ApplyLimits

\* enforceImageLimits alone, on every list of up to MaxItems normalised items
SpecLimits == InitLimits /\ [][NextLimits]_vars

\* the texts of up to MaxText characters: any place of the first Arabic
\* character, all-blank texts, the empty text, and no text at all
MirrorTexts ==
    UNION {{Str(n, a, FALSE) : a \in 0..n} : n \in 1..MaxText}
    \cup {Str(n, 0, TRUE) : n \in 0..MaxText}
    \cup {Undef}

InitMirror ==
    /\ pc = "mirror"
    /\ limIn = <<>>
    /\ mirIn \in [text : MirrorTexts, lang : {"ar", "en"}]
    /\ InitRest

\* mirrorLanguage applied to the drawn text and target language
ApplyMirror ==
    /\ pc = "mirror"
    /\ pc' = "mirrored"
    /\ mirOut' = mirrorLanguage(mirIn.text, mirIn.lang)
    /\ UNCHANGED <<reqVars, loopVars, response, streamVars, limIn, limOut, mirIn, cont,
                   chat, upd>>

NextMirror == ApplyMirror

\* mirrorLanguage alone, on every text of up to MaxText characters
SpecMirror == InitMirror /\ [][NextMirror]_vars

(***************************************************************************)
(* Properties                                                              *)
(***************************************************************************)
RetryableFailure(a) == ~a.thrown /\ (a.status = 429 \/ a.status \in 500..599)
NonRetryableFailure(a) ==
    ~a.thrown /\ a.status \notin 200..299 /\ ~RetryableFailure(a)
OkWithText(a) == ~a.thrown /\ a.status \in 200..299 /\ a.text
OkWithoutText(a) == ~a.thrown /\ a.status \in 200..299 /\ ~a.text
LastCalled == contacted[Len(contacted)]
FirstN(n) == [i \in 1..n |-> i]
Handling == pc # "idle"

\* C1: non-streaming, a candidate answering k < MAX_TRIES retryable failures
\* (429, 5xx) and then a 2xx with text: as long as only the failures have
\* arrived the handler stays with that candidate (it sleeps or calls it
\* again), and once the 2xx has arrived, after exactly k+1 calls to it, the
\* handler has returned 200 naming that candidate and has contacted no later
\* candidate.
C1_RetryThenSuccess ==
    (Handling /\ ~req.stream /\ hist # <<>>) =>
        LET n == Len(hist)
            retryable(k) == \A i \in 1..k : RetryableFailure(hist[i])
        IN  /\ (n < MAX_TRIES /\ retryable(n)) =>
                (pc \in {"sleep", "fetch"} /\ mi = LastCalled /\ response = NoResp)
            /\ (n <= MAX_TRIES /\ retryable(n - 1) /\ OkWithText(hist[n])) =>
                /\ pc = "done"
                /\ response = SuccessResp(candidates[LastCalled])
                /\ contacted = FirstN(LastCalled)

\* C1 witness: the second candidate answered 500, 429, 200 and was returned
C1_Witness ==
    /\ pc = "done"
    /\ ~req.stream
    /\ contacted = <<1, 2>>
    /\ hist = <<Answer(FALSE, 500, FALSE), Answer(FALSE, 429, FALSE),
                Answer(FALSE, 200, TRUE)>>
    /\ response = SuccessResp(candidates[2])

\* C2: non-streaming, the first candidate has answered once with a
\* non-retryable status and the next upstream call answers 2xx with text:
\* that call is the second call of the request and goes to the second
\* candidate, no backoff delay has occurred, and the handler returns 200
\* naming the second candidate.
C2_FallbackWithoutRetry ==
    [][(/\ Handling
        /\ ~req.stream
        /\ contacted = <<1>>
        /\ Len(hist) = 1
        /\ NonRetryableFailure(hist[1])
        /\ nCalls' = nCalls + 1
        /\ OkWithText(hist'[Len(hist')]))
       => (/\ nCalls = 1
           /\ sleeps' = 0
           /\ contacted' = <<1, 2>>
           /\ hist' = <<hist'[1]>>
           /\ pc' = "done"
           /\ response' = SuccessResp(candidates[2]))]_vars

\* C2 witness: the first candidate answered 400 and the handler, without a
\* delay, is about to make its second call, to the second candidate
C2_Witness ==
    /\ pc = "fetch"
    /\ ~req.stream
    /\ contacted = <<1>>
    /\ hist = <<Answer(FALSE, 400, FALSE)>>
    /\ mi = 2
    /\ nCalls = 1
    /\ sleeps = 0

\* C3: in both modes, an error response to a request that passed validation
\* is returned only when every candidate of the list has been called, in
\* list order, and the last call failed.
C3_ErrorOnlyAfterAllTried ==
    (pc = "done" /\ response.kind = "error" /\ candidates # <<>>) =>
        /\ contacted = FirstN(Len(candidates))
        /\ ~OkWithText(hist[Len(hist)])
        /\ req.stream => (hist[Len(hist)].thrown \/ hist[Len(hist)].status \notin 200..299)

\* C3 witness: a streaming request with five candidates that all failed
C3_Witness ==
    /\ pc = "done"
    /\ req.stream
    /\ Len(candidates) = 5
    /\ contacted = FirstN(5)
    /\ response.kind = "error"

\* C4: non-streaming, every upstream call answering 2xx without text: the
\* handler calls every candidate once and returns the 502 "Empty/blocked"
\* error; it never returns a 200.
C4_AllEmptyIs502 ==
    (Handling /\ ~req.stream) =>
        /\ response.status # 200
        /\ (pc = "done" /\ candidates # <<>>) =>
              /\ response.status = 502
              /\ response.error = "Empty/blocked response"
              /\ nCalls = Len(candidates)
              /\ contacted = FirstN(Len(candidates))

\* C4 witness: four candidates answered 200 without text, 502 was returned
C4_Witness ==
    /\ pc = "done"
    /\ ~req.stream
    /\ nCalls = 4
    /\ \A i \in 1..Len(hist) : OkWithoutText(hist[i])
    /\ response.status = 502

\* the media items supplied with event e, each with the place it was given
\* at: <<0, j>> top-level image j, <<i, j>> image j of message i, <<0, 0>>
\* the top-level audio, <<i, 0>> the audio of message i
ImagesAt(images, owner) ==
    IF IsArray(images)
    THEN {[src |-> <<owner, j>>, item |-> images.items[j]] : j \in 1..Len(images.items)}
    ELSE {}
AudioAt(audio, owner) ==
    IF Truthy(audio) THEN {[src |-> <<owner, 0>>, item |-> audio]} ELSE {}
SuppliedMedia(e) ==
    ImagesAt(e.images, 0) \cup AudioAt(e.audio, 0)
    \cup (IF IsArray(e.messages)
          THEN UNION {ImagesAt(e.messages.items[i].images, i)
                      \cup AudioAt(e.messages.items[i].audio, i) :
                        i \in 1..Len(e.messages.items)}
          ELSE {})

\* the inline media parts of a conversation, turn after turn
InlineParts(turns) ==
    FlatSeq([t \in 1..Len(turns) |->
               SelectSeq(turns[t].parts, LAMBDA q : q.inline)])
InlineSrcs(turns) == {InlineParts(turns)[k].src : k \in 1..Len(InlineParts(turns))}
OutboundBytes(turns) ==
    SumSeq([k \in 1..Len(InlineParts(turns)) |->
              approxBase64Bytes(InlineParts(turns)[k].data)])

\* C5: a POST request (credential set, body parsed) with no prompt and no
\* non-empty messages list is answered 400 and makes no upstream call.
C5_MissingInputIs400 ==
    (/\ Handling
     /\ req.httpMethod = "POST" /\ req.apiKey /\ req.jsonOk
     /\ ~Truthy(req.prompt)
     /\ ~(IsArray(req.messages) /\ Len(req.messages.items) > 0))
    => (pc = "done" /\ response.status = 400 /\ nCalls = 0)

\* C6: when media items were supplied and none of them is in the outbound
\* conversation, the handler has returned 413 and made no upstream call.
C6_AllRejectedIs413 ==
    (Handling /\ SuppliedMedia(req) # {} /\ InlineSrcs(contents) = {})
    => (pc = "done" /\ response.status = 413 /\ nCalls = 0)

\* C7: once an upstream call has been made, the approximate sizes of the
\* media parts of the outbound conversation sum to at most 60 MiB.
C7_TotalWithinCeiling ==
    nCalls > 0 => OutboundBytes(contents) <= 60 * 1024 * 1024

\* C8: every supplied media item that has a MIME type outside the allow-list
\* is in no turn of the outbound conversation and is in the rejection list
\* with reason "type".
C8_BadTypeRejected ==
    Handling =>
        \A x \in SuppliedMedia(req) :
            (x.item.shape # "other" /\ x.item.mime \notin (ALLOWED_IMAGE \cup ALLOWED_AUDIO))
            => /\ x.src \notin InlineSrcs(contents)
               /\ \E k \in 1..Len(rejected) :
                     rejected[k].src = x.src /\ rejected[k].reason = "type"

\* the running total enforceImageLimits had reached before item i: the sizes
\* of the earlier items that are among the accepted parts
AcceptedSrcs(out) == {out.acceptedParts[k].src : k \in 1..Len(out.acceptedParts)}
PriorTotal(in, out, i) ==
    SumSeq([j \in 1..(i - 1) |->
              IF in[j].src \in AcceptedSrcs(out) THEN in[j].bytes ELSE 0])
\* what became of item i: "accepted", or the reason it was rejected with
Verdict(in, out, i) ==
    IF in[i].src \in AcceptedSrcs(out) THEN "accepted"
    ELSE LET k == CHOOSE k \in 1..Len(out.rejected) : out.rejected[k].src = in[i].src
         IN  out.rejected[k].reason
EveryItemOnce(in, out) ==
    /\ Len(out.acceptedParts) + Len(out.rejected) = Len(in)
    /\ \A i \in 1..Len(in) :
          \/ in[i].src \in AcceptedSrcs(out)
          \/ \E k \in 1..Len(out.rejected) : out.rejected[k].src = in[i].src
    /\ out.totalBytes = PriorTotal(in, out, Len(in) + 1)

\* C9 as stated: type before per-part before total, per-part only for an
\* item larger than 15 MiB, every other item accepted.
C9_PrecedenceAsStated ==
    pc = "limited" =>
        /\ EveryItemOnce(limIn, limOut)
        /\ \A i \in 1..Len(limIn) :
              Verdict(limIn, limOut, i) =
                 IF limIn[i].mime \notin ALLOWED_IMAGE THEN "type"
                 ELSE IF limIn[i].bytes > 15 * 1024 * 1024 THEN "per-part"
                 ELSE IF PriorTotal(limIn, limOut, i) + limIn[i].bytes > 60 * 1024 * 1024
                      THEN "total"
                 ELSE "accepted"

\* C9 amended: type before per-part before total, per-part for an
\* allow-listed item that is empty (approximate size 0) or larger than
\* 15 MiB, total for an allow-listed item of 1 byte to 15 MiB that would take
\* the running total of the accepted items above 60 MiB, every other item
\* accepted and added to the running total.
C9_Precedence ==
    pc = "limited" =>
        /\ EveryItemOnce(limIn, limOut)
        /\ \A i \in 1..Len(limIn) :
              Verdict(limIn, limOut, i) =
                 IF limIn[i].mime \notin ALLOWED_IMAGE THEN "type"
                 ELSE IF limIn[i].bytes = 0 \/ limIn[i].bytes > 15 * 1024 * 1024
                      THEN "per-part"
                 ELSE IF PriorTotal(limIn, limOut, i) + limIn[i].bytes > 60 * 1024 * 1024
                      THEN "total"
                 ELSE "accepted"

\* C9 witness: a list whose fifth item is rejected for the total, and which
\* also holds an empty item rejected per-part
C9_Witness ==
    /\ pc = "limited"
    /\ Len(limIn) = 6
    /\ limOut.totalBytes = 60 * 1024 * 1024
    /\ \E k \in 1..Len(limOut.rejected) : limOut.rejected[k].reason = "total"
    /\ \E k \in 1..Len(limOut.rejected) :
          limOut.rejected[k].reason = "per-part" /\ limOut.rejected[k].bytes = 0

\* C10: when some supplied items were accepted and some rejected, the request
\* is not refused with 413, and no item of the rejection list is in any turn
\* of the outbound conversation.
C10_OnlyAcceptedOutbound ==
    (Handling /\ accepted # <<>> /\ rejected # <<>>) =>
        /\ response.status # 413
        /\ \A k \in 1..Len(rejected) : rejected[k].src \notin InlineSrcs(contents)

\* the four numeric fields of a request with the value each was given, the
\* value the handler uses, its range and its documented default
NumericFields ==
    {[given |-> req.temperature, used |-> generationConfig.temperature,
      min |-> Dec(0, 0), max |-> Dec(1, 0), default |-> Dec(0, 6)],
     [given |-> req.top_p, used |-> generationConfig.topP,
      min |-> Dec(0, 0), max |-> Dec(1, 0), default |-> Dec(0, 9)],
     [given |-> req.max_output_tokens, used |-> generationConfig.maxOutputTokens,
      min |-> Dec(1, 0), max |-> Dec(8192, 0), default |-> Dec(2048, 0)],
     [given |-> req.timeout_ms, used |-> timeout_ms,
      min |-> Dec(1000, 0), max |-> Dec(29000, 0), default |-> Dec(26000, 0)]}

\* C11: once an upstream call has been made, whatever the inbound values of
\* temperature, top_p, max_output_tokens and timeout_ms were, the values used
\* are within [0,1], [0,1], [1,8192] and [1000,29000]; a finite number given
\* within the range is used as given.
C11_UsedValuesInRange ==
    nCalls > 0 =>
        \A f \in NumericFields :
            /\ f.min <= f.used /\ f.used <= f.max
            /\ (/\ f.given.t = "number" /\ f.given.num.k = "finite"
                /\ f.min <= f.given.num.v /\ f.given.num.v <= f.max)
               => f.used = f.given.num.v

\* C11 witness: a request with all four fields set to 100000 was sent
\* upstream with temperature 1, maxOutputTokens 8192 and timeout 29000 ms
C11_Witness ==
    /\ nCalls > 0
    /\ req.temperature = NumberValue(Finite(Dec(100000, 0)))
    /\ req.max_output_tokens = NumberValue(Finite(Dec(100000, 0)))
    /\ req.timeout_ms = NumberValue(Finite(Dec(100000, 0)))
    /\ generationConfig.temperature = Dec(1, 0)
    /\ generationConfig.maxOutputTokens = Dec(8192, 0)
    /\ timeout_ms = Dec(29000, 0)

\* an inbound value that is no number and no string that reads as a finite
\* number
NonNumeric(v) ==
    /\ v.t # "undefined"
    /\ ~(v.t = "number" /\ v.num.k = "finite")
    /\ ~(v.t = "string" /\ "num" \in DOMAIN v /\ v.num.k = "finite")

\* C12: once an upstream call has been made, a numeric field that was given
\* an invalid or non-numeric value (null, a boolean, an empty or non-numeric
\* string, an array, an object, an infinity) is used with its documented
\* default: 0.6, 0.9, 2048, 26000.
C12_InvalidBecomesDefault ==
    nCalls > 0 =>
        \A f \in NumericFields : NonNumeric(f.given) => f.used = f.default

\* the parts of a turn that hold the guardrail block, and the turns that
\* hold it
IsGuardText(part) == ~part.inline /\ "guard" \in DOMAIN part.text
GuardParts(turn) == {k \in 1..Len(turn.parts) : IsGuardText(turn.parts[k])}
GuardTurns(turns) == {t \in 1..Len(turns) : GuardParts(turns[t]) # {}}
UserTurns(turns) == {t \in 1..Len(turns) : turns[t].role = "user"}

\* C13: once an upstream call has been made, the guardrail block is in
\* exactly one turn of the outbound conversation, once, and that turn is the
\* first turn with role user (the only turn, for a prompt).
C13_GuardrailExactlyOnce ==
    nCalls > 0 =>
        /\ Cardinality(GuardTurns(contents)) = 1
        /\ \A t \in GuardTurns(contents) :
              /\ Cardinality(GuardParts(contents[t])) = 1
              /\ t \in UserTurns(contents)
              /\ \A u \in UserTurns(contents) : t <= u

\* the pool members other than model, in pool order
PoolWithout(model) == SelectSeq(MODEL_POOL, LAMBDA m : m # model)

\* C14: the candidate list of a request holds no model twice; it is the pool
\* in its configured order when the request names "auto" or no model, and
\* otherwise the named model followed by the pool members other than it, in
\* pool order, whether or not the named model is in the pool.
C14_CandidateOrder ==
    (Handling /\ candidates # <<>>) =>
        /\ \A i, j \in 1..Len(candidates) : i # j => candidates[i] # candidates[j]
        /\ req.model \in {"auto", ""} => candidates = MODEL_POOL
        /\ req.model \notin {"auto", ""} =>
              /\ candidates[1] = req.model
              /\ Tail(candidates) = PoolWithout(req.model)

\* C14 witness: the third pool member was named and a call was made to the
\* fourth candidate, the last pool member
C14_Witness ==
    /\ Handling
    /\ req.model = MODEL_POOL[3]
    /\ candidates = <<MODEL_POOL[3], MODEL_POOL[1], MODEL_POOL[2], MODEL_POOL[4]>>
    /\ contacted = <<1, 2, 3, 4>>

\* C15: a success response (and the meta event of an opened stream) names
\* the candidate the last upstream call went to, that call answered 2xx (with
\* text, when not streaming), the candidates contacted are exactly those up
\* to it, in list order, and the handler passes from one candidate to the next
\* only on an answer with which the call to the former has failed for good.
C15_ModelIsFirstSuccess ==
    /\ [](((pc = "done" /\ response.kind \in {"json", "sse"}) \/ pc = "read") =>
            /\ contacted = FirstN(LastCalled)
            /\ mi = LastCalled
            /\ ~hist[Len(hist)].thrown /\ hist[Len(hist)].status \in 200..299
            /\ ~req.stream => hist[Len(hist)].text
            /\ pc = "done" => response.model = candidates[LastCalled]
            /\ req.stream => sse[1].model = candidates[LastCalled])
    /\ [][(mi > 0 /\ mi' # mi) =>
            /\ mi' = mi + 1
            /\ contacted' = FirstN(mi)
            /\ LET a == hist'[Len(hist')]
               IN  \/ NonRetryableFailure(a)
                   \/ ~req.stream /\ OkWithoutText(a)
                   \/ (a.thrown \/ RetryableFailure(a)) /\ Len(hist') = MAX_TRIES]_vars

\* C15 witness: a non-streaming request answered by its third candidate
C15_Witness ==
    /\ pc = "done"
    /\ response.kind = "json"
    /\ contacted = <<1, 2, 3>>
    /\ response.model = candidates[3]
    /\ req.model = "my-tuned-model"

\* C16: the error response returned after every candidate has failed reports
\* the failure of the last candidate of the list: the body holds the status
\* the last upstream answer had, and the response carries the request id, in
\* the non-streaming and in the streaming path.
C16_LastFailureSurfaced ==
    (pc = "done" /\ response.kind = "error" /\ candidates # <<>>) =>
        /\ response.failed = Len(candidates)
        /\ LastCalled = Len(candidates)
        /\ LET a == hist[Len(hist)]
           IN  (~a.thrown /\ a.status \notin 200..299) =>
                  /\ response.error = "Upstream error"
                  /\ response.upstream = a.status
        /\ response.ids # {}

\* C19: every response the handler returns carries the request id of the
\* call, and every success response the elapsed time.
C19_RequestIdEverywhere ==
    (pc = "done" /\ response.kind # "rejected") =>
        /\ response.ids # {}
        /\ response.status = 200 => response.took

\* the lines of the upstream body that have arrived whole (each ended by a
\* newline), in order of arrival, as the chunk events they are forwarded as
ArrivedLines ==
    ChunkEvents(SubSeq(SplitLines(received), 1, Len(SplitLines(received)) - 1))

\* C17: once a stream has been opened, the events yielded are one meta event
\* (chosen model, language) first and then chunk events for the upstream
\* lines in their order of arrival; the body returned is these followed by one
\* end event, which is last.
C17_MetaChunksEnd ==
    /\ pc = "read" =>
          /\ sse = <<MetaEvent(candidates[mi], lang)>> \o ArrivedLines
          /\ response = NoResp
    /\ (pc = "done" /\ response.kind = "sse") =>
          sse = <<MetaEvent(response.model, lang)>> \o ArrivedLines
                \o <<EndEvent(response.model)>>

\* C17 witness: a stream of the second candidate that forwarded the lines
\* "x" and "y", in that order, and ended
C17_Witness ==
    /\ pc = "done"
    /\ response.kind = "sse"
    /\ contacted = <<1, 2>>
    /\ Len(sse) = 4
    /\ sse[2] = ChunkEvent(<<"x">>)
    /\ sse[3] = ChunkEvent(<<"y">>)
    /\ sse[4].event = "end"

\* C18: whatever the state of the API key and of the body, OPTIONS is
\* answered 204 with an empty body, every method other than POST and OPTIONS
\* is answered 405, neither makes an upstream call, and every response other
\* than these two, and every upstream call, belongs to a POST.
C18_MethodGate ==
    Handling =>
        /\ req.httpMethod = "OPTIONS" => (pc = "done" /\ response = PreflightResp)
        /\ req.httpMethod \notin {"POST", "OPTIONS"} =>
              (pc = "done" /\ response = ErrorResp(405, "Method Not Allowed"))
        /\ req.httpMethod # "POST" => (nCalls = 0 /\ contents = <<>>)
        /\ (pc # "done" \/ response.status \notin {204, 405}) => req.httpMethod = "POST"

\* C18 witness: a GET with no API key configured and a malformed body was
\* answered 405
C18_Witness ==
    /\ pc = "done"
    /\ req.httpMethod = "GET"
    /\ ~req.apiKey
    /\ ~req.jsonOk
    /\ response.status = 405

\* C20: mirrorLanguage with target "ar" and a non-empty text without an
\* Arabic character returns the Arabic notice followed by the text (the
\* result is longer by the 34 characters of the notice and has its first
\* Arabic character where the notice has it); with target "en" and a text
\* with an Arabic character it returns the English notice followed by the
\* text (longer by 32 characters, the first Arabic character 32 places
\* later); in every other case it returns the text as it is.
C20_MirrorLanguage ==
    pc = "mirrored" =>
        LET text == mirIn.text
            nonEmpty == text.t = "string" /\ text.len > 0
        IN  /\ (mirIn.lang = "ar" /\ nonEmpty /\ text.ar = 0) =>
                  mirOut = Str(34 + text.len, 3, FALSE)
            /\ (mirIn.lang = "en" /\ nonEmpty /\ text.ar > 0) =>
                  mirOut = Str(32 + text.len, 32 + text.ar, text.blank)
            /\ ~(\/ mirIn.lang = "ar" /\ nonEmpty /\ text.ar = 0
                 \/ mirIn.lang = "en" /\ nonEmpty /\ text.ar > 0) =>
                  mirOut = text

\* C20 witness: target "en" and a text of MaxText characters whose last one
\* is Arabic
C20_Witness ==
    /\ pc = "mirrored"
    /\ mirIn.lang = "en"
    /\ mirIn.text = Str(MaxText, MaxText, FALSE)
    /\ mirOut = Str(32 + MaxText, 32 + MaxText, FALSE)

\* the user-visible text of a request: the prompt, when there is one,
\* followed by the contents of the messages
CombinedText(e) ==
    LET ms == IF IsArray(e.messages) THEN e.messages.items ELSE <<>>
    IN  IF ~Truthy(e.prompt) THEN JoinContents(ms, 1)
        ELSE IF ms = <<>> THEN e.prompt
        ELSE JoinTwo(e.prompt, JoinContents(ms, 1))
ArabicWithin(s, n) == s.ar > 0 /\ s.ar <= n

\* C21: the language of a request that passed validation is force_lang when
\* that is "ar" or "en", otherwise "ar" exactly when an Arabic character is
\* among the first 6000 characters of the prompt and the message contents
\* taken together, "en" otherwise.
C21_LanguageDetection ==
    (Handling /\ lang # "") =>
        lang = IF req.force_lang \in {"ar", "en"} THEN req.force_lang
               ELSE IF ArabicWithin(CombinedText(req), 6000) THEN "ar"
               ELSE "en"

\* the answer of the last upstream call
LastAnswer == hist[Len(hist)]

\* the handler has returned an error after the last candidate failed
FinalFailed == pc = "done" /\ response.kind = "error" /\ response.failed > 0

\* C22: the status of a final failure reflects the failure class of the last
\* candidate: an upstream 429 gives 429, an upstream 5xx gives 502, a 2xx
\* without text gives 502, a network failure gives 500 and a timeout gives 504.
C22_FinalStatusByClass ==
    FinalFailed =>
        LET a == LastAnswer
        IN  /\ (a.thrown /\ a.cause = "timeout") => response.status = 504
            /\ (a.thrown /\ a.cause = "network") => response.status = 500
            /\ (~a.thrown /\ a.status = 429) => response.status = 429
            /\ (~a.thrown /\ a.status >= 500) => response.status = 502
            /\ (~a.thrown /\ IsOk(a.status) /\ ~a.text) => response.status = 502

\* the last k characters of a are the first k characters of b
IsOverlap(a, b, k) ==
    /\ k <= Len(a)
    /\ k <= Len(b)
    /\ \A i \in 1..k : a[Len(a) - k + i] = b[i]

\* C23: once a continuation chunk has been joined to a text that ended in an
\* ellipsis, the result is the earlier text followed by the chunk without its
\* first k characters, k being the longest overlap of at most 200 characters
\* between the tail of the text and the head of the chunk; and a text ending in
\* an ellipsis is returned only when the chunk or time budget is used up.
C23_SeamNotDuplicated ==
    /\ (cont.n >= 2 /\ EndsTruncated(cont.prev)) =>
          \E k \in 0..MaxOverlap :
             /\ IsOverlap(cont.prev, cont.last, k)
             /\ \A j \in (k + 1)..MaxOverlap : ~IsOverlap(cont.prev, cont.last, j)
             /\ Len(cont.text) = Len(cont.prev) + Len(cont.last) - k
             /\ SubSeq(cont.text, 1, Len(cont.prev)) = cont.prev
             /\ SubSeq(cont.text, Len(cont.text) - Len(cont.last) + 1, Len(cont.text))
                  = cont.last
    /\ (pc = "assembled" /\ EndsTruncated(cont.text)) =>
          (cont.n = MaxContinuationChunks \/ ~cont.time)

\* a chunk ending in an ellipsis was continued by one whose first 50
\* characters repeat its last 50, and the 50 appear once in the result
C23_Witness ==
    /\ pc = "assembled"
    /\ cont.n = 2
    /\ cont.prev = <<"b">> \o Tail50
    /\ cont.last = Tail50 \o <<"b">>
    /\ cont.text = <<"b">> \o Tail50 \o <<"b">>

\* the platform's ceiling on the duration of one invocation, in tenths of a ms
PlatformCeiling == Dec(29000, 0)

\* the time granted to the request so far, in tenths of a ms: the timeout of
\* every upstream call made and the base delay of every backoff (the jitter,
\* which only adds to it, left out)
GrantedTime == nCalls * timeout_ms + sleeps * Dec(BASE_BACKOFF_MS, 0)

\* C24: the time budget is decremented across retries and fallbacks: the sum
\* of the timeouts granted to the attempts of a request and of its backoff
\* delays never exceeds the platform ceiling of 29000 ms.
C24_TimeBudget == Handling => GrantedTime <= PlatformCeiling

\* the length to which upstream text is cut before it goes into a body
DetailsLimit == 1000

\* C25: every error response carries an error kind and a detail string, and
\* the exception message or upstream text in it is cut to a bounded length.
C25_ErrorKindAndDetail ==
    (pc = "done" /\ response.kind = "error") =>
        /\ response.error # ""
        /\ response.details # NoDetails
        /\ response.details <= DetailsLimit

\* the call ended with a 429, a 5xx status or a thrown error
EndedTransient(a) == a.thrown \/ a.status = 429 \/ (a.status >= 500 /\ a.status <= 599)

\* C26: in both modes a candidate receives at most MAX_TRIES upstream calls in
\* one request, and every call to it but the last one ended with a 429, a 5xx
\* status or a thrown error.
C26_AttemptCeiling ==
    Handling =>
        /\ Len(hist) <= MAX_TRIES
        /\ nCalls <= MAX_TRIES * Len(contacted)
        /\ \A k \in 1..(Len(hist) - 1) : EndedTransient(hist[k])

\* a streamed request whose candidate was called three times, after a 429 and
\* after a thrown error
C26_Witness ==
    /\ Handling
    /\ req.stream
    /\ Len(hist) = MAX_TRIES
    /\ hist[1].status = 429
    /\ hist[2].thrown

\* the candidates 1..n in list order
InListOrder(n) == [k \in 1..n |-> k]

\* C27: in a non-streaming request the candidates are contacted in list order,
\* none skipped and none revisited, and an upstream call is outstanding only
\* while the handler awaits it: not during a backoff delay, and always to the
\* candidate last contacted or to the one right after it.
C27_SequentialInOrder ==
    (Handling /\ ~req.stream) =>
        /\ contacted = InListOrder(Len(contacted))
        /\ Len(contacted) <= Len(candidates)
        /\ pc = "fetch" =>
              /\ delay = 0
              /\ mi \in {Len(contacted), Len(contacted) + 1}
              /\ mi <= Len(candidates)
        /\ pc = "sleep" => (delay > 0 /\ mi = Len(contacted))

\* a non-streaming request in the backoff delay of its third candidate
C27_Witness ==
    /\ Handling
    /\ ~req.stream
    /\ pc = "sleep"
    /\ contacted = <<1, 2, 3>>
    /\ nCalls >= 4

\* the stream has begun: a 2xx answer opened it
StreamBegun == pc = "read" \/ (pc = "done" /\ sse # <<>>)

\* C28: in streaming mode, once an upstream call has returned a 2xx response
\* no further upstream call is made for the request, whatever the reads of
\* the body come to: the handler only reads on or returns.
C28_NoCallAfterStreamBegins ==
    [][StreamBegun =>
          /\ StreamBegun'
          /\ nCalls' = nCalls
          /\ contacted' = contacted
          /\ mi' = mi
          /\ pc' \in {"read", "done"}]_vars

\* the stream of the second candidate broke after a chunk had been forwarded,
\* the first candidate having failed after a retry
C28_Witness ==
    /\ pc = "done"
    /\ req.stream
    /\ response = RejectedPromise
    /\ contacted = <<1, 2>>
    /\ nCalls = 3
    /\ Len(sse) = 2

\* the success response delivers usable text: the body that was parsed held
\* text, or the stream forwarded at least one chunk
DeliversText ==
    IF req.stream THEN \E i \in 1..Len(sse) : sse[i].event = "chunk"
    ELSE LastAnswer.text

\* C29: in both modes a 2xx upstream answer without usable text is that
\* model's failure: no success response is returned for an empty output.
C29_NoEmptySuccess ==
    (pc = "done" /\ response.status = 200) => DeliversText

\* the attempt was still in progress when its timeout ran out: fetch was
\* pending, or the body was still being read
OutlivedTimeout(a) == (a.thrown /\ a.cause = "timeout") \/ a.late

\* C30: an attempt is bounded by the timeout for its whole duration, the
\* reading of the body included: one that outlives the timeout counts as a
\* retryable failure, retried while attempts remain and otherwise reported as
\* the model's network/timeout failure, never handled as an upstream response.
C30_TimeoutBoundsAttempt ==
    (Handling /\ hist # <<>> /\ OutlivedTimeout(LastAnswer)) =>
        /\ pc \in {"sleep", "fetch"} \/ (pc = "done" /\ response.error = "Network/timeout")
        /\ Len(hist) < MAX_TRIES => (pc \in {"sleep", "fetch"} /\ mi = Len(contacted))

\* a retry of the current candidate is pending: its backoff delay runs, or the
\* call that follows the delay is outstanding
RetryPending == pc = "sleep" \/ (pc = "fetch" /\ attempt > 1)

\* C31: a backoff delay occurs exactly before each retry of the same model:
\* the request has slept once per retry, a delay runs only after a failed
\* attempt a < MAX_TRIES that ended with a 429, a 5xx or a thrown error, and it
\* lies in [600 * 2^(a-1), 600 * 2^(a-1) + 400) ms.
C31_BackoffBeforeRetry ==
    Handling =>
        /\ sleeps = (nCalls - Len(contacted)) + (IF RetryPending THEN 1 ELSE 0)
        /\ pc # "sleep" => delay = 0
        /\ pc = "sleep" =>
              /\ attempt = Len(hist)
              /\ attempt < MAX_TRIES
              /\ EndedTransient(LastAnswer)
              /\ delay >= 600 * Pow2(attempt - 1)
              /\ delay < 600 * Pow2(attempt - 1) + 400
              /\ (attempt = 1 => (delay >= 600 /\ delay < 1000))
              /\ (attempt = 2 => (delay >= 1200 /\ delay < 1600))

\* the delay after the second failed attempt of the second candidate, with the
\* largest jitter
C31_Witness ==
    /\ pc = "sleep"
    /\ attempt = 2
    /\ delay = 1599
    /\ contacted = <<1, 2>>
    /\ sleeps = 2

\* the caller's text in a turn: the body of the wrapped first part, the text
\* of a plain first part, the empty string when the turn has no text part
CallerText(turn) ==
    IF turn.parts = <<>> \/ turn.parts[1].inline THEN StrEmpty
    ELSE IF "body" \in DOMAIN turn.parts[1].text THEN turn.parts[1].text.body
    ELSE turn.parts[1].text

\* the text of inbound message m, and whether media of message number i pass
\* the limits applied to the message
InboundText(m) == IF IsNonBlankString(m.content) THEN m.content ELSE StrEmpty
HasOwnMedia(m, i) ==
    \/ enforceImageLimits(normalizeImageInputs(m.images, i), MAX_INLINE_BYTES,
                          MAX_INLINE_BYTES_TOTAL).acceptedParts # <<>>
    \/ coerceAudioPart(m.audio, i) # <<>>

\* the k-th smallest member of the set S of numbers
RECURSIVE Nth(_, _)
Nth(S, k) ==
    LET least == CHOOSE x \in S : \A y \in S : x <= y
    IN  IF k = 1 THEN least ELSE Nth(S \ {least}, k - 1)

\* C32: every outbound turn has a role among user, model and system, any
\* other inbound role having become user, and has at least one part; on the
\* messages path the outbound turns are the inbound messages in their inbound
\* order, without those left with no text and no media.
C32_TurnsWellFormed ==
    (Handling /\ candidates # <<>>) =>
        /\ \A t \in 1..Len(contents) :
              /\ contents[t].role \in {"user", "model", "system"}
              /\ Len(contents[t].parts) >= 1
        /\ IsArray(req.messages) =>
              LET ms == req.messages.items
              IN  \E S \in SUBSET (1..Len(ms)) :
                     /\ Cardinality(S) = Len(contents)
                     /\ \A t \in 1..Len(contents) :
                           LET m == ms[Nth(S, t)]
                           IN  /\ contents[t].role =
                                    (IF m.role \in {"user", "model", "system"}
                                     THEN m.role ELSE "user")
                               /\ CallerText(contents[t]) = InboundText(m)
                     /\ \A i \in (1..Len(ms)) \ S :
                           InboundText(ms[i]) = StrEmpty /\ ~HasOwnMedia(ms[i], i)

\* a conversation whose first message is blank and whose second has the role
\* "assistant": one outbound turn, with role user and the second text
C32_Witness ==
    /\ Handling
    /\ candidates # <<>>
    /\ IsArray(req.messages)
    /\ Len(req.messages.items) = 2
    /\ req.messages.items[1] = Message("model", StrBlank, Undef, Undef)
    /\ req.messages.items[2] = Message("assistant", StrAr, Undef, Undef)
    /\ Len(contents) = 1
    /\ contents[1].role = "user"
    /\ CallerText(contents[1]) = StrAr

\* C33: for every inbound event and every upstream behaviour the handler
\* resolves to a response with a status code; it never throws or rejects.
C33_AlwaysResolves ==
    pc = "done" => (response.kind # "rejected" /\ response.status \in 100..599)

\* the handler has returned a response
Returned == pc = "done" /\ response.kind # "rejected"

\* the number of upstream calls stays within candidates x MAX_TRIES, 12 for
\* the pool and 15 for a model outside it
CallsBounded ==
    Handling =>
        /\ nCalls <= Len(candidates) * MAX_TRIES
        /\ req.model = "auto" => nCalls <= 12
        /\ nCalls <= 15

\* C34: a request makes at most (number of candidates) x MAX_TRIES upstream
\* calls, at most 12 with "auto" and 15 with a model outside the pool, and
\* when every upstream call and backoff timer completes the handler
\* eventually returns a response.
C34_BoundedCallsAndReturn == []CallsBounded /\ (Handling ~> Returned)

\* the chunk events among the events yielded
ForwardedChunks == SelectSeq(sse, LAMBDA ev : ev.event = "chunk")

\* C35: when a stream has ended, every non-blank line of the upstream body,
\* a last line without a newline included, has been forwarded as one chunk
\* event, in order, none dropped and none twice, however the reads cut it.
C35_EveryLineForwarded ==
    (pc = "done" /\ response.kind = "sse") =>
        ForwardedChunks = ChunkEvents(SplitLines(received))

\* the places of the media items that were accepted: the images of the
\* handler's accepted list and the audio items that pass coerceAudioPart
AcceptedMedia ==
    {accepted[k].src : k \in 1..Len(accepted)}
    \cup {a.src : a \in {x \in SuppliedMedia(req) :
                            x.src[2] = 0 /\ coerceAudioPart(x.item, x.src[1]) # <<>>}}

\* how often the item supplied at place src is in the outbound conversation
TimesOutbound(src) ==
    Cardinality({k \in 1..Len(InlineParts(contents)) : InlineParts(contents)[k].src = src})

\* C36: for a request that reaches the upstream API every accepted media item
\* is in the outbound conversation exactly once, on the prompt path and on
\* the messages path.
C36_AcceptedMediaOnce ==
    (Handling /\ candidates # <<>>) =>
        \A src \in AcceptedMedia : TimesOutbound(src) = 1

\* the turn carries text or media that the caller supplied
CarriesCallerInput(turn) ==
    CallerText(turn) # StrEmpty \/ \E k \in 1..Len(turn.parts) : turn.parts[k].inline

\* C37: whenever an upstream call has been made the outbound conversation has
\* at least one turn, and at least one turn carries text or media that came
\* from the caller.
C37_ConversationNonEmpty ==
    nCalls > 0 =>
        /\ Len(contents) >= 1
        /\ \E t \in 1..Len(contents) : CarriesCallerInput(contents[t])

\* the text parts of the outbound conversation that hold the guardrail block
GuardTexts ==
    UNION {{contents[t].parts[k].text : k \in GuardParts(contents[t])} :
              t \in 1..Len(contents)}

\* C38: the guardrail header line and the guardrail block sent upstream are
\* in the same language, the target language of the request, on the prompt
\* path and on the messages path.
C38_GuardrailOneLanguage ==
    (Handling /\ candidates # <<>>) =>
        \A g \in GuardTexts : g.head = lang /\ g.guard.lang = lang

\* the three conditions hold for the request
Verified(e) ==
    /\ e.session_id \in Sessions
    /\ sha256hex(e.proof) = SecretHashOf(e.session_id)
    /\ e.signature = sha256hex(e.session_id \o e.proof \o e.timestamp.str \o BodyText(e))
    /\ e.timestamp.num
    /\ Abs(e.timestamp.age) <= FiveMinutes

\* C39: the messages store is contacted only for a request whose proof
\* hashes to the session's secret_hash, whose signature is the digest of
\* session_id, proof, timestamp and body text, and whose timestamp is within
\* 5 minutes of server time; a request that fails one of them, its session
\* having been read, is answered 401.
C39_StoreOnlyAfterVerification ==
    /\ chat.storeCalls > 0 => Verified(chat.ev)
    /\ (chat.pc = "done" /\ chat.secret_hash # <<>> /\ ~Verified(chat.ev)) =>
          (chat.status = 401 /\ chat.storeCalls = 0)

\* invocation i has sent its write
HasPut(i) == upd.req[i].pc = "put" \/ upd.req[i].put # 0

\* the i-th of the writes the store accepted was made by an invocation
\* whose read saw the version it replaced
OverwroteWhatItRead(k) == upd.log[k].sha = upd.log[k].over

\* C40: a write is sent only after the read returned success or 404 and
\* carries the hash that read returned (none after 404); a write the store
\* rejects gives the caller an error status; of two invocations that read
\* the same version at most one succeeds, and no accepted write replaces a
\* version other than the one its invocation read.
C40_NoLostUpdate ==
    /\ \A i \in 1..MaxUpdates :
          /\ HasPut(i) => (Ok(upd.req[i].get) \/ upd.req[i].get = 404)
          /\ (HasPut(i) /\ upd.req[i].get = 404) => upd.req[i].sha = 0
          /\ (HasPut(i) /\ Ok(upd.req[i].get)) => upd.req[i].sha # 0
          /\ (upd.req[i].put # 0 /\ ~Ok(upd.req[i].put)) => upd.req[i].status >= 400
          /\ upd.req[i].status = 200 => \E k \in 1..Len(upd.log) : upd.log[k].by = i
    /\ \A k \in 1..Len(upd.log) : OverwroteWhatItRead(k)
    /\ \A i, j \in 1..MaxUpdates :
          (i # j /\ upd.req[i].put # 0 /\ upd.req[j].put # 0
                 /\ upd.req[i].sha = upd.req[j].sha) =>
          ~(upd.req[i].status = 200 /\ upd.req[j].status = 200)

\* two invocations read the same existing version, the first write was
\* accepted and the second rejected as stale
C40_Witness ==
    \E i, j \in 1..MaxUpdates :
        /\ i # j
        /\ upd.req[i].sha # 0 /\ upd.req[i].sha = upd.req[j].sha
        /\ upd.req[i].status = 200
        /\ upd.req[j].put = 409 /\ upd.req[j].status = 409

====
